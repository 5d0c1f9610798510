---------------------------- MODULE TaskWorkflow ----------------------------
(***************************************************************************)
(* The persisted task workflow of services/orchestrator.py with the tool   *)
(* gateway it calls: create, approve, reject and resume a task, and the    *)
(* execution of its approved ticket.                                       *)
(*                                                                         *)
(* Every request runs on a worker with a database session of its own.      *)
(* The grain of atomicity is the statement for a read and the commit for   *)
(* a write.  A session reads the task row once, when the request starts,   *)
(* and never again: it decides, and names the `from` of a transition, by   *)
(* the state it has `seen`, while its UPDATE statements overwrite the      *)
(* columns it assigns whatever they hold by then.                          *)
(***************************************************************************)
EXTENDS AccessPolicy, TaskContract, TicketStore, Sequences

CONSTANTS
  Tasks,     \* the task ids that uuid4 may draw
  Workers,   \* requests that can be in progress at the same time
  Contents,  \* texts an analysis may propose, up to _normalise_text
  Modes,     \* failure modes clients ask for
  Faults,    \* "error": a statement of create_task may raise; "crash": a
             \* process may die, or a statement raise that nothing handles
  NoValue    \* NULL

VARIABLES
  tasks,      \* the table tasks
  approvals,  \* the table approvals
  attempts,   \* the table execution_attempts, in the order of its ids
  audit,      \* the table audit_events, without order or repetition
  session     \* for each worker the local state of its request

vars == <<tasks, approvals, attempts, audit, session, tickets>>

FailureMode == {"none", "timeout_after_success", "pause_after_approval"}

\* _idempotency_key: a project lies in one tenant and there is one write
\* tool, so two previews have one key iff project and content agree.
Key == [project : Projects, content : Contents]

\* ActionReceipt; num stands for the ticket key.
Receipt == [num : Nat, replayed : BOOLEAN, reconciled : BOOLEAN]

Row ==
  [user : Users, project : Projects, action : RequestedAction, mode : Modes,
   lane : RiskLane, state : TaskState,
   analysis : Contents \cup {NoValue},
   verified : {"unknown", "passed", "failed"},
   preview : Key \cup {NoValue},
   receipt : Receipt \cup {NoValue}]

Approval == [task : Tasks, decision : {"approved", "rejected"}, actor : Users]

Attempt ==
  [task : Tasks, key : Key,
   status : {"STARTED", "SUCCEEDED", "TIMEOUT_UNKNOWN", "RECONCILED",
             "FAILED_UNCONFIRMED"}]

\* Where a request stands: the name of its next database statement.
Creating ==
  {"contract", "gather", "retrieve", "verify", "analyze", "judge", "conclude"}
Deciding == {"approve", "mark_approved", "reject", "mark_rejected"}
Executing ==
  {"pause", "resume", "execute", "open", "find", "count", "insert", "succeed",
   "timed_out", "reconcile", "reconciled", "confirm", "receipt", "complete"}

Place == {"idle"} \cup Creating \cup Deciding \cup Executing

Session ==
  [at : Place,
   task : Tasks \cup {NoValue},
   actor : Users \cup {NoValue},
   seen : TaskState \cup {NoValue},
   attempt : Nat,
   result : Receipt \cup {NoValue}]

Idle == [at |-> "idle", task |-> NoValue, actor |-> NoValue,
         seen |-> NoValue, attempt |-> 0, result |-> NoValue]

ASSUME WorkflowAssumption ==
  /\ Modes \subseteq FailureMode
  /\ Faults \subseteq {"error", "crash"}
  /\ NoValue \notin Tasks \cup Contents \cup Users \cup TaskState
  /\ NoValue \notin Key
  /\ NoValue \notin Receipt
  /\ NoValue \notin Row

-----------------------------------------------------------------------------
(* Helpers: reading and committing through a session.                      *)

At(w, place) == session[w].at = place
TaskRow(w) == tasks[session[w].task]
Exists(t) == tasks[t] # NoValue

Begin(w, t, actor, place, seen) ==
  session' = [session EXCEPT ![w] =
                [at |-> place, task |-> t, actor |-> actor, seen |-> seen,
                 attempt |-> 0, result |-> NoValue]]
Goto(w, place) == session' = [session EXCEPT ![w].at = place]
GotoSeeing(w, place, state) ==
  session' = [session EXCEPT ![w].at = place, ![w].seen = state]
GotoWith(w, place, result) ==
  session' = [session EXCEPT ![w].at = place, ![w].result = result]
Finish(w) == session' = [session EXCEPT ![w] = Idle]

Found(num, replayed, reconciled) ==
  [num |-> num, replayed |-> replayed, reconciled |-> reconciled]
\* A replay reported as a new ticket, and a replay.
ReplayAsNew(x) == Found(x.num, FALSE, FALSE)
Replay(x) == Found(x.num, TRUE, FALSE)

\* An attempt that reports its result before the call, and a new attempt.
NewAttemptSucceeded(t, key) == [task |-> t, key |-> key, status |-> "SUCCEEDED"]
NewAttempt(t, key) == [task |-> t, key |-> key, status |-> "STARTED"]

\* record_event.
Record(t, type, actor) ==
  [task |-> t, type |-> type, actor |-> actor, from |-> NoValue, to |-> NoValue]
Log(w, type, actor) ==
  audit' = audit \cup {Record(session[w].task, type, actor)}

\* The row of w's task with a new state, committed.
Store(w, row, state) ==
  tasks' = [tasks EXCEPT ![session[w].task] = [row EXCEPT !.state = state]]

\* _transition: the state and its event in one commit.
Transition(w, row, state, actor) ==
  /\ Store(w, row, state)
  /\ audit' = audit \cup
       {[task |-> session[w].task, type |-> "STATE_TRANSITION",
         actor |-> actor, from |-> session[w].seen, to |-> state]}

SetAttempt(w, status) ==
  attempts' = [attempts EXCEPT ![session[w].attempt].status = status]

Init ==
  /\ tasks = [t \in Tasks |-> NoValue]
  /\ approvals = {}
  /\ attempts = <<>>
  /\ audit = {}
  /\ session = [w \in Workers |-> Idle]
  /\ tickets = {}

-----------------------------------------------------------------------------
(* create_task.                                                            *)

NewRow(u, p, action, lane, mode) ==
  [user |-> u, project |-> p, action |-> action, mode |-> mode,
   lane |-> lane, state |-> "RECEIVED", analysis |-> NoValue,
   verified |-> "unknown", preview |-> NoValue, receipt |-> NoValue]

\* Creation without the check of can_write.
MayCreateUnchecked(u, p, lane) == CanRead(u, p)
MayCreate(u, p, lane) ==
  /\ CanRead(u, p)
  /\ lane = "ACTION_CONTROLLED" => CanWrite(u, p)

\* research: the goal contains a research term; any task id that is unused.
CreateTask(w, t, u, p, action, research, mode) ==
  LET lane == ChooseLane(research, action) IN
  /\ At(w, "idle")
  /\ ~Exists(t)
  /\ MayCreate(u, p, lane)
  /\ tasks' = [tasks EXCEPT ![t] = NewRow(u, p, action, lane, mode)]
  /\ audit' = audit \cup {Record(t, "TASK_RECEIVED", u)}
  /\ Begin(w, t, u, "contract", "RECEIVED")
  /\ UNCHANGED <<approvals, attempts, tickets>>

\* The transitions of creation that change nothing but the state.
Advance(w, from, state, to) ==
  /\ At(w, from)
  /\ Transition(w, TaskRow(w), state, NoValue)
  /\ GotoSeeing(w, to, state)
  /\ UNCHANGED <<approvals, attempts, tickets>>

CreateContract(w)  == Advance(w, "contract", "CONTRACT_CREATED", "gather")
GatherDocuments(w) == Advance(w, "gather", "GATHERING", "retrieve")
StartAnalysis(w)   == Advance(w, "verify", "VERIFYING", "analyze")

\* flagged: some retrieved document carries an injection signal.
RetrieveDocuments(w, flagged) ==
  LET types == {"DOCUMENTS_RETRIEVED"} \cup
                 (IF flagged THEN {"PROMPT_INJECTION_SIGNAL_DETECTED"} ELSE {})
  IN
  /\ At(w, "retrieve")
  /\ audit' = audit \cup {Record(session[w].task, y, NoValue) : y \in types}
  /\ Goto(w, "verify")
  /\ UNCHANGED <<tasks, approvals, attempts, tickets>>

\* The analysis, its evidence records and the verdict in one commit; the
\* state is still VERIFYING.
Analyze(w, content, verdict) ==
  /\ At(w, "analyze")
  /\ Store(w, [TaskRow(w) EXCEPT !.analysis = content, !.verified = verdict],
           TaskRow(w).state)
  /\ Goto(w, "judge")
  /\ UNCHANGED <<approvals, attempts, audit, tickets>>

RejectAnalysis(w) ==
  /\ At(w, "judge")
  /\ TaskRow(w).verified = "failed"
  /\ Transition(w, TaskRow(w), "FAILED", NoValue)
  /\ Finish(w)
  /\ UNCHANGED <<approvals, attempts, tickets>>

\* A key that leaves the project out.
PreviewWithoutProject(row) ==
  IF row.action = "create_jira_ticket" THEN row.analysis ELSE NoValue

PreviewOf(row) ==
  IF row.action = "create_jira_ticket"
    THEN [project |-> row.project, content |-> row.analysis]
    ELSE NoValue

ProposalReady(w) ==
  /\ At(w, "judge")
  /\ TaskRow(w).verified = "passed"
  /\ Transition(w, [TaskRow(w) EXCEPT !.preview = PreviewOf(TaskRow(w))],
                "PROPOSAL_READY", NoValue)
  /\ GotoSeeing(w, "conclude", "PROPOSAL_READY")
  /\ UNCHANGED <<approvals, attempts, tickets>>

Conclusion(row) ==
  IF row.action = "none" THEN "COMPLETED" ELSE "APPROVAL_PENDING"

ConcludeCreation(w) ==
  /\ At(w, "conclude")
  /\ Transition(w, TaskRow(w), Conclusion(TaskRow(w)), NoValue)
  /\ Finish(w)
  /\ UNCHANGED <<approvals, attempts, tickets>>

\* An except clause that rolls back and lets the error pass.
CreationFailsSilently(w) ==
  /\ "error" \in Faults
  /\ session[w].at \in Creating
  /\ Finish(w)
  /\ UNCHANGED <<tasks, approvals, attempts, audit, tickets>>

\* The except clause: retrieval, the analyzer or a commit raised.
CreationFails(w) ==
  /\ "error" \in Faults
  /\ session[w].at \in Creating
  /\ TaskRow(w).state # "FAILED"
  /\ Store(w, TaskRow(w), "FAILED")
  /\ Log(w, "TASK_FAILED", NoValue)
  /\ Finish(w)
  /\ UNCHANGED <<approvals, attempts, tickets>>

-----------------------------------------------------------------------------
(* approve_task, reject_task and resume_task.  A request for a task in     *)
(* another state, or by an actor who may not approve, changes nothing.     *)

\* Load the task without the check of its state.
MayDecideAnyState(t, actor, state) ==
  Exists(t) /\ CanApprove(actor, tasks[t].project)

\* Load the task and check its state and the actor.
MayDecide(t, actor, state) ==
  /\ Exists(t)
  /\ tasks[t].state = state
  /\ CanApprove(actor, tasks[t].project)

ReadForDecision(w, t, actor, state, place) ==
  /\ At(w, "idle")
  /\ MayDecide(t, actor, state)
  /\ Begin(w, t, actor, place, state)
  /\ UNCHANGED <<tasks, approvals, attempts, audit, tickets>>

Approve(w, t, actor) == ReadForDecision(w, t, actor, "APPROVAL_PENDING", "approve")
Reject(w, t, actor)  == ReadForDecision(w, t, actor, "APPROVAL_PENDING", "reject")
Resume(w, t, actor)  == ReadForDecision(w, t, actor, "APPROVED", "resume")

\* A table approvals without its constraint, and uq_approval_task.
NeverTaken(t) == FALSE
DecisionTaken(t) == \E a \in approvals : a.task = t

\* The approval row and its event, in one commit; the state is still
\* APPROVAL_PENDING.
StoreDecision(w, place, decision, type, next) ==
  LET s == session[w] IN
  /\ At(w, place)
  /\ ~DecisionTaken(s.task)
  /\ approvals' = approvals \cup
       {[task |-> s.task, decision |-> decision, actor |-> s.actor]}
  /\ Log(w, type, s.actor)
  /\ Goto(w, next)
  /\ UNCHANGED <<tasks, attempts, tickets>>

StoreApproval(w) ==
  StoreDecision(w, "approve", "approved", "ACTION_APPROVED", "mark_approved")
StoreRejection(w) ==
  StoreDecision(w, "reject", "rejected", "ACTION_REJECTED", "mark_rejected")

\* IntegrityError in that commit: the request ends, nothing is written.
DecisionConflict(w) ==
  /\ session[w].at \in {"approve", "reject"}
  /\ DecisionTaken(session[w].task)
  /\ Finish(w)
  /\ UNCHANGED <<tasks, approvals, attempts, audit, tickets>>

\* Every mode pauses.
AlwaysPause(row) == "pause"

AfterApproval(row) ==
  IF row.mode = "pause_after_approval" THEN "pause" ELSE "execute"

MarkApproved(w) ==
  /\ At(w, "mark_approved")
  /\ Transition(w, TaskRow(w), "APPROVED", session[w].actor)
  /\ GotoSeeing(w, AfterApproval(TaskRow(w)), "APPROVED")
  /\ UNCHANGED <<approvals, attempts, tickets>>

MarkRejected(w) ==
  /\ At(w, "mark_rejected")
  /\ Transition(w, TaskRow(w), "REJECTED", session[w].actor)
  /\ Finish(w)
  /\ UNCHANGED <<approvals, attempts, tickets>>

PauseAfterApproval(w) ==
  /\ At(w, "pause")
  /\ Log(w, "WORKER_PAUSED_AFTER_APPROVAL", NoValue)
  /\ Finish(w)
  /\ UNCHANGED <<tasks, approvals, attempts, tickets>>

\* A resume that does not execute.
LogResumeOnly(w) ==
  /\ At(w, "resume")
  /\ Log(w, "WORKFLOW_RESUMED", session[w].actor)
  /\ Finish(w)
  /\ UNCHANGED <<tasks, approvals, attempts, tickets>>

LogResume(w) ==
  /\ At(w, "resume")
  /\ Log(w, "WORKFLOW_RESUMED", session[w].actor)
  /\ Goto(w, "execute")
  /\ UNCHANGED <<tasks, approvals, attempts, tickets>>

-----------------------------------------------------------------------------
(* _execute_action and execute_jira_ticket.                                *)

BeginExecution(w) ==
  /\ At(w, "execute")
  /\ TaskRow(w).preview # NoValue
  /\ Transition(w, TaskRow(w), "EXECUTING", NoValue)
  /\ GotoSeeing(w, "open", "EXECUTING")
  /\ UNCHANGED <<approvals, attempts, tickets>>

\* enforce_tool_policy and require_write.
GatewayAdmits(w) ==
  LET row == TaskRow(w) IN
  /\ ToolPermitted(row.lane, session[w].seen, JiraTool)
  /\ CanWrite(row.user, row.project)

OpenAttempt(w) ==
  LET row == TaskRow(w) IN
  /\ At(w, "open")
  /\ GatewayAdmits(w)
  /\ attempts' = Append(attempts, NewAttempt(session[w].task, row.preview))
  /\ Log(w, "TOOL_CALL_STARTED", row.user)
  /\ session' = [session EXCEPT ![w].at = "find",
                                ![w].attempt = Len(attempts) + 1]
  /\ UNCHANGED <<tasks, approvals, tickets>>

\* FakeJira.create_ticket, first statement: a ticket with the key is there,
FindTicket(w) ==
  /\ At(w, "find")
  /\ \E x \in FindByKey(TaskRow(w).preview) :
       GotoWith(w, "succeed", Replay(x))
  /\ UNCHANGED <<tasks, approvals, attempts, audit, tickets>>

\* or there is none.
MissTicket(w) ==
  /\ At(w, "find")
  /\ FindByKey(TaskRow(w).preview) = {}
  /\ Goto(w, "count")
  /\ UNCHANGED <<tasks, approvals, attempts, audit, tickets>>

CountTickets(w) ==
  /\ At(w, "count")
  /\ GotoWith(w, "insert", Found(NextNumber, FALSE, FALSE))
  /\ UNCHANGED <<tasks, approvals, attempts, audit, tickets>>

AfterInsert(row) ==
  IF row.mode = "timeout_after_success" THEN "timed_out" ELSE "succeed"

InsertTicket(w) ==
  LET num == session[w].result.num IN
  /\ At(w, "insert")
  /\ ~Clashes(TaskRow(w).preview, num)
  /\ AddTicket(TaskRow(w).preview, num)
  /\ Goto(w, AfterInsert(TaskRow(w)))
  /\ UNCHANGED <<tasks, approvals, attempts, audit>>

\* State and attempt in a commit of their own, before that of the event.
CommitSuccessEarly(w) ==
  /\ At(w, "succeed")
  /\ Store(w, TaskRow(w), "CONFIRMING")
  /\ SetAttempt(w, "SUCCEEDED")
  /\ GotoSeeing(w, "confirm", "CONFIRMING")
  /\ UNCHANGED <<approvals, audit, tickets>>

\* The call returned: CONFIRMING is stored without a transition event.
RecordSuccess(w) ==
  /\ At(w, "succeed")
  /\ Store(w, TaskRow(w), "CONFIRMING")
  /\ SetAttempt(w, "SUCCEEDED")
  /\ Log(w, "TOOL_CALL_SUCCEEDED", NoValue)
  /\ GotoSeeing(w, "confirm", "CONFIRMING")
  /\ UNCHANGED <<approvals, tickets>>

\* ToolTimeoutAfterSuccess.
RecordTimeout(w) ==
  /\ At(w, "timed_out")
  /\ Store(w, TaskRow(w), "RECONCILING")
  /\ SetAttempt(w, "TIMEOUT_UNKNOWN")
  /\ Log(w, "TOOL_TIMEOUT_AFTER_POSSIBLE_SUCCESS", NoValue)
  /\ GotoSeeing(w, "reconcile", "RECONCILING")
  /\ UNCHANGED <<approvals, tickets>>

FindAfterTimeout(w) ==
  /\ At(w, "reconcile")
  /\ \E x \in FindByKey(TaskRow(w).preview) :
       GotoWith(w, "reconciled", Found(x.num, TRUE, TRUE))
  /\ UNCHANGED <<tasks, approvals, attempts, audit, tickets>>

RecordReconciled(w) ==
  /\ At(w, "reconciled")
  /\ Store(w, TaskRow(w), "CONFIRMING")
  /\ SetAttempt(w, "RECONCILED")
  /\ Log(w, "WRITE_RECONCILED", NoValue)
  /\ GotoSeeing(w, "confirm", "CONFIRMING")
  /\ UNCHANGED <<approvals, tickets>>

\* The comparison of the postcondition turned around.
ConfirmedInverted(w) ==
  \E x \in FindByKey(TaskRow(w).preview) : x.num # session[w].result.num

\* The postcondition: the ticket is found under the number of the receipt.
Confirmed(w) ==
  \E x \in FindByKey(TaskRow(w).preview) : x.num = session[w].result.num

\* A confirmation that goes on without storing the receipt.
ConfirmWithoutReceipt(w) ==
  /\ At(w, "confirm")
  /\ Confirmed(w)
  /\ Goto(w, "complete")
  /\ UNCHANGED <<tasks, approvals, attempts, audit, tickets>>

ConfirmTicket(w) ==
  /\ At(w, "confirm")
  /\ Confirmed(w)
  /\ Goto(w, "receipt")
  /\ UNCHANGED <<tasks, approvals, attempts, audit, tickets>>

RecordReceipt(w) ==
  /\ At(w, "receipt")
  /\ Store(w, [TaskRow(w) EXCEPT !.receipt = session[w].result],
           TaskRow(w).state)
  /\ Log(w, "POSTCONDITION_CONFIRMED", NoValue)
  /\ Goto(w, "complete")
  /\ UNCHANGED <<approvals, attempts, tickets>>

CompleteAction(w) ==
  /\ At(w, "complete")
  /\ Transition(w, TaskRow(w), "COMPLETED", NoValue)
  /\ Finish(w)
  /\ UNCHANGED <<approvals, attempts, tickets>>

\* Where the next statement of an execution raises: no preview, a refusal
\* of the gateway, an IntegrityError of the insert, a ticket that
\* reconciliation or the postcondition does not find.
ExecutionRefused(w) ==
  \/ At(w, "execute") /\ TaskRow(w).preview = NoValue
  \/ At(w, "open") /\ ~GatewayAdmits(w)
  \/ At(w, "insert") /\ Clashes(TaskRow(w).preview, session[w].result.num)
  \/ At(w, "reconcile") /\ FindByKey(TaskRow(w).preview) = {}
  \/ At(w, "confirm") /\ ~Confirmed(w)

\* No handler catches it: the request ends and the row stays as it is, but
\* for the attempt that reconciliation gives up.
ExecutionFails(w) ==
  /\ ExecutionRefused(w)
  /\ IF At(w, "reconcile") THEN SetAttempt(w, "FAILED_UNCONFIRMED")
                           ELSE UNCHANGED attempts
  /\ Finish(w)
  /\ UNCHANGED <<tasks, approvals, audit, tickets>>

-----------------------------------------------------------------------------
\* A process dies, or a statement raises where nothing handles it: the
\* request is gone and what it had committed stays.
RequestDies(w) ==
  /\ "crash" \in Faults
  /\ ~At(w, "idle")
  /\ Finish(w)
  /\ UNCHANGED <<tasks, approvals, attempts, audit, tickets>>

\* A request arrives.
Arrive(w) ==
  \/ \E t \in Tasks, u \in Users, p \in Projects, action \in RequestedAction,
        research \in BOOLEAN, mode \in Modes :
       CreateTask(w, t, u, p, action, research, mode)
  \/ \E t \in Tasks, actor \in Users : Approve(w, t, actor)
  \/ \E t \in Tasks, actor \in Users : Reject(w, t, actor)
  \/ \E t \in Tasks, actor \in Users : Resume(w, t, actor)

\* A request in progress takes its next step.
Proceed(w) ==
  \/ CreateContract(w)
  \/ GatherDocuments(w)
  \/ \E flagged \in BOOLEAN : RetrieveDocuments(w, flagged)
  \/ StartAnalysis(w)
  \/ \E content \in Contents, verdict \in {"passed", "failed"} :
       Analyze(w, content, verdict)
  \/ RejectAnalysis(w)
  \/ ProposalReady(w)
  \/ ConcludeCreation(w)
  \/ StoreApproval(w)
  \/ StoreRejection(w)
  \/ DecisionConflict(w)
  \/ MarkApproved(w)
  \/ MarkRejected(w)
  \/ PauseAfterApproval(w)
  \/ LogResume(w)
  \/ BeginExecution(w)
  \/ OpenAttempt(w)
  \/ FindTicket(w)
  \/ MissTicket(w)
  \/ CountTickets(w)
  \/ InsertTicket(w)
  \/ RecordSuccess(w)
  \/ RecordTimeout(w)
  \/ FindAfterTimeout(w)
  \/ RecordReconciled(w)
  \/ ConfirmTicket(w)
  \/ RecordReceipt(w)
  \/ CompleteAction(w)
  \/ ExecutionFails(w)

Next ==
  \E w \in Workers : Arrive(w) \/ Proceed(w) \/ CreationFails(w) \/ RequestDies(w)

Spec == Init /\ [][Next]_vars

\* The thread pool runs a request that has started until it ends; no client
\* is bound to send one.
Fairness == \A w \in Workers : WF_vars(Proceed(w))

FairSpec == Spec /\ Fairness

-----------------------------------------------------------------------------
(* Properties.                                                             *)

\* Every table and every session holds values of its columns' types.
TypeOK ==
  /\ tasks \in [Tasks -> Row \cup {NoValue}]
  /\ approvals \subseteq Approval
  /\ attempts \in Seq(Attempt)
  /\ session \in [Workers -> Session]
  /\ tickets \subseteq [key : Key, num : Nat]

ActionTask(t) == Exists(t) /\ tasks[t].action = "create_jira_ticket"

\* t was approved by a member of its project who may approve.
Approved(t) ==
  \E a \in approvals : /\ a.task = t
                       /\ a.decision = "approved"
                       /\ CanApprove(a.actor, tasks[t].project)

\* "No ticket write is allowed before an authorized approval": each ticket is
\* the proposal of a task that an authorized actor has approved and whose
\* requester may write to the project, whatever requests overlapped or died.
NoWriteBeforeApproval ==
  \A x \in tickets :
    \E t \in Tasks : /\ Exists(t)
                     /\ tasks[t].preview = x.key
                     /\ Approved(t)
                     /\ CanWrite(tasks[t].user, tasks[t].project)

\* The first stored decision wins: once a rejection is stored, no attempt is
\* made for the task, it gets no receipt, and it is at most waiting for its
\* last transition; an approval that read the task earlier changes nothing.
RejectionIsFinal ==
  \A a \in approvals : a.decision = "rejected" =>
    /\ tasks[a.task].state \in {"APPROVAL_PENDING", "REJECTED"}
    /\ tasks[a.task].receipt = NoValue
    /\ \A i \in DOMAIN attempts : attempts[i].task # a.task

\* A receipt names an existing ticket for the proposed text, and an action
\* task is not COMPLETED without one.
CompletedIsConfirmed ==
  \A t \in Tasks : ActionTask(t) =>
    /\ tasks[t].state = "COMPLETED" => tasks[t].receipt # NoValue
    /\ tasks[t].receipt # NoValue =>
         \E x \in FindByKey(tasks[t].preview) : x.num = tasks[t].receipt.num

\* Of all tasks that share one ticket, at most one receipt claims to have
\* created it: the others say replayed, however their executions overlapped.
OneOriginalReceipt ==
  \A t, u \in Tasks :
    LET original(v) == /\ Exists(v)
                       /\ tasks[v].receipt # NoValue
                       /\ ~tasks[v].receipt.replayed
    IN original(t) /\ original(u) /\ tasks[t].preview = tasks[u].preview
         => t = u

\* The attempt log can be trusted after any failure: an attempt that says it
\* succeeded has its ticket, and every ticket was announced by an attempt.
AttemptsAreTruthful ==
  /\ \A i \in DOMAIN attempts :
       attempts[i].status \in {"SUCCEEDED", "TIMEOUT_UNKNOWN", "RECONCILED"}
         => FindByKey(attempts[i].key) # {}
  /\ \A x \in tickets : \E i \in DOMAIN attempts : attempts[i].key = x.key

\* The event that is committed with a status of an attempt.
StatusEvents ==
  [SUCCEEDED |-> "TOOL_CALL_SUCCEEDED",
   TIMEOUT_UNKNOWN |-> "TOOL_TIMEOUT_AFTER_POSSIBLE_SUCCESS",
   RECONCILED |-> "WRITE_RECONCILED"]

\* What is in the tables is explained by the audit timeline, with the actor
\* who is answerable for it: decisions, attempts with the outcome they have
\* come to, and receipts, also when a process dies between two commits.
AuditExplainsEffects ==
  /\ \A a \in approvals :
       Record(a.task, IF a.decision = "approved" THEN "ACTION_APPROVED"
                                                 ELSE "ACTION_REJECTED",
              a.actor) \in audit
  /\ \A i \in DOMAIN attempts :
       Record(attempts[i].task, "TOOL_CALL_STARTED",
              tasks[attempts[i].task].user) \in audit
  /\ \A i \in DOMAIN attempts : attempts[i].status \in DOMAIN StatusEvents =>
       Record(attempts[i].task, StatusEvents[attempts[i].status], NoValue)
         \in audit
  /\ \A t \in Tasks : Exists(t) /\ tasks[t].receipt # NoValue =>
       /\ Record(t, "POSTCONDITION_CONFIRMED", NoValue) \in audit
       /\ Record(t, IF tasks[t].receipt.reconciled THEN "WRITE_RECONCILED"
                                                   ELSE "TOOL_CALL_SUCCEEDED",
                 NoValue) \in audit

\* The count that names a ticket may be stale when the row is inserted, yet
\* the numbers in the table are always 1 to n, and a key has one ticket.
TicketsAreNumberedInOrder ==
  /\ {x.num : x \in tickets} = 1 .. Cardinality(tickets)
  /\ Cardinality({x.key : x \in tickets}) = Cardinality(tickets)

\* An execution that was admitted to the workflow is never refused by the
\* gateway, by reconciliation or by the postcondition: the checks made when
\* the task was created and approved imply theirs.  Only a lost race for the
\* ticket number or key stops it.
OnlyTheInsertIsRefused ==
  \A w \in Workers : ExecutionRefused(w) => At(w, "insert")

\* Where the next commit is a _transition, which names as its origin the state
\* that the session has seen.
Transitioning ==
  {"contract", "gather", "verify", "judge", "conclude", "mark_approved",
   "mark_rejected", "execute", "complete"}
Resumed(t) == \E e \in audit : e.task = t /\ e.type = "WORKFLOW_RESUMED"

\* No session is refreshed, yet a STATE_TRANSITION event that is about to be
\* written names the state that the row leaves, however requests overlap: only
\* executions of a task that was resumed name a stale one.  This speaks of the
\* events that are written; RECONCILING, CONFIRMING and the FAILED of the except
\* clause have none.
StaleOriginsNeedResume ==
  \A w \in Workers :
    session[w].at \in Transitioning /\ session[w].seen # TaskRow(w).state =>
      /\ session[w].at \in {"execute", "complete"}
      /\ Resumed(session[w].task)

\* Without crashes, when no request is in progress a task rests in a state from
\* which its client can go on, or is finished; APPROVED is such a state only for
\* the mode that pauses.  This holds of a task alone: of two tasks that race for
\* a ticket number or a key one may stay in EXECUTING (ErrorsReachFailed).
Settled(t) ==
  \/ tasks[t].state \in {"APPROVAL_PENDING", "COMPLETED", "REJECTED", "FAILED"}
  \/ tasks[t].state = "APPROVED" /\ tasks[t].mode = "pause_after_approval"

Quiet == \A w \in Workers : At(w, "idle")

QuietTasksAreSettled == Quiet => \A t \in Tasks : Exists(t) => Settled(t)

-----------------------------------------------------------------------------
(* Action properties.                                                      *)

\* FAILED and REJECTED are final, and a receipt, once stored, never comes to
\* name another ticket, although every later writer overwrites it blindly.
OutcomesAreStable ==
  [][\A t \in Tasks : Exists(t) =>
       /\ tasks[t].state \in {"FAILED", "REJECTED"} =>
            tasks'[t].state = tasks[t].state
       /\ tasks[t].receipt # NoValue =>
            /\ tasks'[t].receipt # NoValue
            /\ tasks'[t].receipt.num = tasks[t].receipt.num]_vars

\* The state machine that README.md draws, with FAILED reachable from every
\* state of creation.
CreationState ==
  {"RECEIVED", "CONTRACT_CREATED", "GATHERING", "VERIFYING", "PROPOSAL_READY"}

DocumentedEdges ==
  (CreationState \X {"FAILED"}) \cup
  {<<"RECEIVED", "CONTRACT_CREATED">>, <<"CONTRACT_CREATED", "GATHERING">>,
   <<"GATHERING", "VERIFYING">>, <<"VERIFYING", "PROPOSAL_READY">>,
   <<"PROPOSAL_READY", "COMPLETED">>, <<"PROPOSAL_READY", "APPROVAL_PENDING">>,
   <<"APPROVAL_PENDING", "REJECTED">>, <<"APPROVAL_PENDING", "APPROVED">>,
   <<"APPROVED", "EXECUTING">>, <<"EXECUTING", "CONFIRMING">>,
   <<"EXECUTING", "RECONCILING">>, <<"RECONCILING", "CONFIRMING">>,
   <<"CONFIRMING", "COMPLETED">>}

\* A task's state changes only along an edge of that state machine.
StatesFollowDiagram ==
  [][\A t \in Tasks : Exists(t) /\ tasks'[t].state # tasks[t].state =>
       <<tasks[t].state, tasks'[t].state>> \in DocumentedEdges]_vars

\* README.md draws no way out of COMPLETED.
CompletedIsFinal ==
  [][\A t \in Tasks : Exists(t) /\ tasks[t].state = "COMPLETED" =>
       tasks'[t].state = "COMPLETED"]_vars

\* README.md:135, "Processing and verification errors transition the task to
\* FAILED": no error leaves a task in EXECUTING when its request has ended.
ErrorsReachFailed ==
  Quiet => \A t \in Tasks : Exists(t) => tasks[t].state # "EXECUTING"

\* README.md:149, "Task state and approval are persisted for a later resume
\* request": a task whose approval is stored and on which no request works
\* has the state that resume asks for, or a later one.
ApprovalIsResumable ==
  \A a \in approvals :
    a.decision = "approved" /\ (\A w \in Workers : session[w].task # a.task)
      => tasks[a.task].state \in ApprovedStates

-----------------------------------------------------------------------------
(* Liveness, under FairSpec.                                               *)

StateOf(t) == IF Exists(t) THEN tasks[t].state ELSE NoValue

\* Creation ends, with a proposal, a result or a failure, also when the
\* analyzer or a commit raises.
CreationEnds ==
  \A t \in Tasks :
    (StateOf(t) \in CreationState) ~> (StateOf(t) \notin CreationState)

Complete(t) == StateOf(t) = "COMPLETED" /\ tasks[t].receipt # NoValue

\* A task that was approved, and whose mode does not pause it, comes to rest
\* in COMPLETED with a receipt, also while resume requests for it overlap, as
\* long as no other task races with it for a ticket number or a key.
ApprovedTaskCompletes ==
  \A t \in Tasks :
    (StateOf(t) = "APPROVED" /\ tasks[t].mode # "pause_after_approval")
      ~> []Complete(t)

\* With clients that keep asking to resume an APPROVED task, so does a task
\* that paused, under the same condition.
ClientsRetry ==
  \A t \in Tasks :
    WF_vars(\E w \in Workers, actor \in Users : Resume(w, t, actor))

PausedTaskCompletes ==
  ClientsRetry => \A t \in Tasks : (StateOf(t) = "APPROVED") ~> []Complete(t)

\* Executions that race for a ticket number do not all lose: if a task has
\* begun to execute, some task gets its receipt.
SomeExecutionCompletes ==
  (\E t \in Tasks : StateOf(t) = "EXECUTING")
    ~> (\E t \in Tasks : Exists(t) /\ tasks[t].receipt # NoValue)

-----------------------------------------------------------------------------
(* The workflow implements TicketGate.                                     *)

DecisionOf(t) ==
  IF \E a \in approvals : a.task = t /\ a.decision = "approved" THEN "approved"
  ELSE IF \E a \in approvals : a.task = t /\ a.decision = "rejected"
    THEN "rejected"
  ELSE "none"

Gate ==
  INSTANCE TicketGate WITH
    Keys <- Key, NoKey <- NoValue,
    wants <- [t \in Tasks |-> IF Exists(t) THEN tasks[t].preview ELSE NoValue],
    decision <- [t \in Tasks |-> DecisionOf(t)],
    issued <- tickets,
    confirmed <- [t \in Tasks |->
                    IF Exists(t) /\ tasks[t].receipt # NoValue
                      THEN tasks[t].receipt.num ELSE 0]

\* Every behaviour of the workflow, with any overlap of requests and any
\* crash, is one of the gate.
ImplementsTicketGate == Gate!Spec
=============================================================================
