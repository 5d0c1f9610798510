--------------------------- MODULE TaskTruthProofs ---------------------------
(***************************************************************************)
(* What the tables claim is true: proofs that attempts and receipts name   *)
(* tickets that exist, that an action task is completed only with its      *)
(* receipt, that every attempt and ticket has its approval and a rejected  *)
(* task has none, and that the checks made again during an execution never *)
(* refuse what creation and approval admitted, for any number of           *)
(* overlapping requests, with any faults.                                  *)
(*                                                                         *)
(* The first part describes once what a step of a request may do to each   *)
(* table (Frame); the invariants are then proved from that description     *)
(* and from the few actions that establish them.                           *)
(***************************************************************************)
EXTENDS TaskWorkflowProofs

\* The place a request goes on to.
Moves(from, to) ==
  \/ from = "contract" /\ to = "gather"
  \/ from = "gather" /\ to = "retrieve"
  \/ from = "retrieve" /\ to = "verify"
  \/ from = "verify" /\ to = "analyze"
  \/ from = "analyze" /\ to = "judge"
  \/ from = "judge" /\ to = "conclude"
  \/ from = "approve" /\ to = "mark_approved"
  \/ from = "reject" /\ to = "mark_rejected"
  \/ from = "mark_approved" /\ to \in {"pause", "execute"}
  \/ from = "resume" /\ to = "execute"
  \/ from = "execute" /\ to = "open"
  \/ from = "open" /\ to = "find"
  \/ from = "find" /\ to \in {"succeed", "count"}
  \/ from = "count" /\ to = "insert"
  \/ from = "insert" /\ to \in {"timed_out", "succeed"}
  \/ from = "timed_out" /\ to = "reconcile"
  \/ from = "reconcile" /\ to = "reconciled"
  \/ from \in {"succeed", "reconciled"} /\ to = "confirm"
  \/ from = "confirm" /\ to = "receipt"
  \/ from = "receipt" /\ to = "complete"

\* The state that a request at a place may store in a row.
Stores(place, row, state) ==
  \/ place \in Creating /\ state \in CreationState \cup {"FAILED"}
  \/ place = "conclude" /\ state = Conclusion(row)
  \/ place = "mark_approved" /\ state = "APPROVED"
  \/ place = "mark_rejected" /\ state = "REJECTED"
  \/ place = "execute" /\ state = "EXECUTING"
  \/ place = "timed_out" /\ state = "RECONCILING"
  \/ place \in {"succeed", "reconciled"} /\ state = "CONFIRMING"
  \/ place = "complete" /\ state = "COMPLETED"

\* The request ends, arrives or goes on.
SessionStep(w) ==
  /\ OnlySession(w)
  /\ \/ session'[w] = Idle
     \/ /\ At(w, "idle")
        /\ session'[w].at \in {"contract", "approve", "reject", "resume"}
        /\ session'[w].task \in Tasks
     \/ /\ ~At(w, "idle")
        /\ Moves(session[w].at, session'[w].at)
        /\ session'[w].task = session[w].task
        /\ session'[w].actor = session[w].actor
        /\ ~At(w, "open") => session'[w].attempt = session[w].attempt
        /\ session[w].at \notin {"find", "count", "reconcile"} =>
             session'[w].result = session[w].result

RowsStep(w) ==
  /\ \A t \in Tasks : tasks[t] # NoValue =>
       /\ tasks'[t] # NoValue
       /\ tasks'[t].user = tasks[t].user
       /\ tasks'[t].project = tasks[t].project
       /\ tasks'[t].action = tasks[t].action
       /\ tasks'[t].lane = tasks[t].lane
       /\ tasks'[t].mode = tasks[t].mode
       /\ session[w].task # t => tasks'[t] = tasks[t]
       /\ \/ tasks'[t].preview = tasks[t].preview
          \/ At(w, "judge") /\ tasks'[t].preview = PreviewOf(tasks[t])
       /\ \/ tasks'[t].receipt = tasks[t].receipt
          \/ At(w, "receipt") /\ tasks'[t].receipt = session[w].result
       /\ \/ tasks'[t].state = tasks[t].state
          \/ Stores(session[w].at, tasks[t], tasks'[t].state)
  /\ \A t \in Tasks : tasks[t] = NoValue /\ tasks'[t] # NoValue =>
       /\ At(w, "idle")
       /\ tasks'[t].state = "RECEIVED"
       /\ tasks'[t].preview = NoValue
       /\ tasks'[t].receipt = NoValue
       /\ tasks'[t].action = "create_jira_ticket"
            => tasks'[t].lane = "ACTION_CONTROLLED"

AttemptsStep(w) ==
  \/ attempts' = attempts
  \/ /\ At(w, "open")
     /\ attempts' = Append(attempts, NewAttempt(session[w].task, TaskRow(w).preview))
     /\ session'[w].attempt = Len(attempts) + 1
  \/ /\ session[w].at \in {"succeed", "timed_out", "reconciled"}
     /\ \E status \in {"SUCCEEDED", "TIMEOUT_UNKNOWN", "RECONCILED"} :
          SetAttempt(w, status)
  \/ /\ At(w, "reconcile")
     /\ ExecutionRefused(w)
     /\ SetAttempt(w, "FAILED_UNCONFIRMED")

\* What a step of w may do to the sessions and tables.
Frame(w) ==
  /\ SessionStep(w)
  /\ RowsStep(w)
  /\ AttemptsStep(w)
  /\ tickets' = tickets \/ InsertTicket(w)
  /\ audit \subseteq audit'
  /\ \/ approvals' = approvals
     \/ At(w, "approve") /\ StoreApproval(w)
     \/ At(w, "reject") /\ StoreRejection(w)

\* Once the gateway's call has returned, or its reconciliation is under way.
Written ==
  {"succeed", "timed_out", "reconcile", "reconciled", "confirm", "receipt",
   "complete"}

WritesFound == \A w \in Workers : session[w].at \in Written => Confirmed(w)

ReceiptsStored ==
  \A w \in Workers : At(w, "complete") => TaskRow(w).receipt # NoValue

ReceiptsNameTickets ==
  \A t \in Tasks : Exists(t) /\ tasks[t].receipt # NoValue =>
    \E x \in FindByKey(tasks[t].preview) : x.num = tasks[t].receipt.num

CompletedHasReceipt ==
  \A t \in Tasks : ActionTask(t) /\ tasks[t].state = "COMPLETED" =>
    tasks[t].receipt # NoValue

KeysDistinct == \A x, y \in tickets : x.key = y.key => x = y

TruthInv ==
  /\ WritesFound
  /\ ReceiptsStored
  /\ ReceiptsNameTickets
  /\ CompletedHasReceipt
  /\ KeysDistinct

AttemptsGranted == \A i \in DOMAIN attempts : Granted(attempts[i].task)

\* Each ticket is the preview of a task whose approval is stored.
TicketsGranted ==
  \A x \in tickets :
    \E t \in Tasks : Exists(t) /\ tasks[t].preview = x.key /\ Granted(t)

\* The attempt of an execution is for its task and announces its proposal.
AttemptsAnnounce ==
  \A w \in Workers : session[w].at \in Attempted =>
    /\ attempts[session[w].attempt].task = session[w].task
    /\ attempts[session[w].attempt].key = TaskRow(w).preview

EffectsInv ==
  /\ AttemptsGranted
  /\ TicketsGranted
  /\ AttemptsAnnounce
  /\ AttemptsAreTruthful

ActionsControlled ==
  \A t \in Tasks : ActionTask(t) => tasks[t].lane = "ACTION_CONTROLLED"

\* What waits for a decision, or has one, proposes a ticket.
PendingHasPreview ==
  /\ \A w \in Workers : At(w, "conclude") /\ ActionTask(session[w].task) =>
       TaskRow(w).preview # NoValue
  /\ \A t \in Tasks : Exists(t) /\ tasks[t].state = "APPROVAL_PENDING" =>
       tasks[t].preview # NoValue
  /\ \A w \in Workers : session[w].at \in Deciding =>
       TaskRow(w).preview # NoValue
  /\ \A a \in approvals : tasks[a.task].preview # NoValue

OpenersSeeExecuting ==
  \A w \in Workers : At(w, "open") => session[w].seen = "EXECUTING"

AdmittedInv == ActionsControlled /\ PendingHasPreview /\ OpenersSeeExecuting

-----------------------------------------------------------------------------
(* Every step is a Frame.                                                  *)

USE DEF At, TaskRow, Exists

LEMMA FinishStep ==
  ASSUME TypeInv, NEW w \in Workers, Finish(w)
  PROVE  SessionStep(w)
  BY DEF TypeInv, SessionsOK, Finish, SessionStep, OnlySession

LEMMA GotoStep ==
  ASSUME TypeInv, NEW w \in Workers, ~At(w, "idle"), ~At(w, "open"),
         NEW place, NEW state, Moves(session[w].at, place),
         \/ Goto(w, place)
         \/ GotoSeeing(w, place, state)
         \/ /\ GotoWith(w, place, state)
            /\ session[w].at \in {"find", "count", "reconcile"}
  PROVE  SessionStep(w)
<1>1. session \in [Workers -> Session] /\ session[w] \in Session
  BY DEF TypeInv, SessionsOK
<1>2. Goto(w, place) => SessionStep(w)
  BY <1>1 DEF Goto, SessionStep, OnlySession, Session
<1>3. GotoSeeing(w, place, state) => SessionStep(w)
  BY <1>1 DEF GotoSeeing, SessionStep, OnlySession, Session
<1>4. GotoWith(w, place, state) /\ session[w].at \in {"find", "count", "reconcile"}
        => SessionStep(w)
  BY <1>1 DEF GotoWith, SessionStep, OnlySession, Session
<1> QED BY <1>2, <1>3, <1>4

LEMMA StoreStep ==
  ASSUME TypeInv, NEW w \in Workers, ~At(w, "idle"), NEW row \in Row,
         NEW state \in TaskState, Store(w, row, state),
         row.user = TaskRow(w).user,
         row.project = TaskRow(w).project,
         row.action = TaskRow(w).action,
         row.lane = TaskRow(w).lane,
         row.mode = TaskRow(w).mode,
         \/ row.preview = TaskRow(w).preview
         \/ At(w, "judge") /\ row.preview = PreviewOf(TaskRow(w)),
         \/ row.receipt = TaskRow(w).receipt
         \/ At(w, "receipt") /\ row.receipt = session[w].result,
         state = TaskRow(w).state \/ Stores(session[w].at, TaskRow(w), state)
  PROVE  /\ RowsStep(w)
         /\ tasks'[session[w].task].preview = row.preview
         /\ tasks'[session[w].task].receipt = row.receipt
         /\ tasks'[session[w].task].state = state
<1> DEFINE t == session[w].task
           new == [row EXCEPT !.state = state]
<1>1. /\ new \in Row
      /\ new.user = row.user
      /\ new.project = row.project
      /\ new.action = row.action
      /\ new.lane = row.lane
      /\ new.mode = row.mode
      /\ new.state = state
      /\ new.preview = row.preview
      /\ new.receipt = row.receipt
  BY DEF Row
<1>2. /\ t \in Tasks /\ tasks[t] # NoValue
      /\ tasks' = [tasks EXCEPT ![t] = new]
      /\ tasks \in Rows
  BY InProgress DEF Store, TypeInv, TypeOK, Rows
<1> HIDE DEF new
<1>3. tasks'[t] = new /\ \A u \in Tasks \ {t} : tasks'[u] = tasks[u]
  BY <1>2 DEF Rows
<1>4. new # NoValue
  BY <1>1, WorkflowAssumption
<1>5. ASSUME NEW u \in Tasks, tasks[u] # NoValue
      PROVE  /\ tasks'[u] # NoValue
             /\ tasks'[u].user = tasks[u].user
             /\ tasks'[u].project = tasks[u].project
             /\ tasks'[u].action = tasks[u].action
             /\ tasks'[u].lane = tasks[u].lane
             /\ tasks'[u].mode = tasks[u].mode
             /\ t # u => tasks'[u] = tasks[u]
             /\ \/ tasks'[u].preview = tasks[u].preview
                \/ At(w, "judge") /\ tasks'[u].preview = PreviewOf(tasks[u])
             /\ \/ tasks'[u].receipt = tasks[u].receipt
                \/ At(w, "receipt") /\ tasks'[u].receipt = session[w].result
             /\ \/ tasks'[u].state = tasks[u].state
                \/ Stores(session[w].at, tasks[u], tasks'[u].state)
  <2>1. CASE u = t
    BY <1>1, <1>3, <1>4, <2>1
  <2>2. CASE u # t
    BY <1>3, <1>5, <2>2
  <2> QED BY <2>1, <2>2
<1>6. \A u \in Tasks : tasks[u] = NoValue => tasks'[u] = NoValue
  BY <1>2, <1>3
<1>7. RowsStep(w)
  BY <1>5, <1>6 DEF RowsStep
<1> QED BY <1>1, <1>3, <1>7

\* A transition that changes nothing but the state.
LEMMA TransitionStep ==
  ASSUME TypeInv, NEW w \in Workers, ~At(w, "idle"),
         NEW state \in TaskState, Store(w, TaskRow(w), state),
         Stores(session[w].at, TaskRow(w), state)
  PROVE  RowsStep(w)
  BY InProgress, StoreStep

LEMMA SameRowsStep ==
  ASSUME tasks' = tasks, NEW w \in Workers
  PROVE  RowsStep(w)
  BY DEF RowsStep
\* A step that leaves the attempts, approvals and tickets alone.
LEMMA PlainFrame ==
  ASSUME NEW w \in Workers, SessionStep(w), RowsStep(w), audit \subseteq audit',
         UNCHANGED <<approvals, attempts, tickets>>
  PROVE  Frame(w)
  BY DEF Frame, AttemptsStep

LEMMA CreateTaskFrame ==
  ASSUME TypeInv, NEW w \in Workers, NEW t \in Tasks, NEW u \in Users,
         NEW p \in Projects, NEW action \in RequestedAction,
         NEW research \in BOOLEAN, NEW mode \in Modes,
         CreateTask(w, t, u, p, action, research, mode)
  PROVE  Frame(w)
<1> DEFINE lane == ChooseLane(research, action)
           row == NewRow(u, p, action, lane, mode)
<1>1. /\ At(w, "idle") /\ tasks[t] = NoValue
      /\ tasks' = [tasks EXCEPT ![t] = row]
      /\ Begin(w, t, u, "contract", "RECEIVED")
      /\ audit \subseteq audit'
      /\ UNCHANGED <<approvals, attempts, tickets>>
  BY DEF CreateTask
<1>2. /\ row.state = "RECEIVED"
      /\ row.preview = NoValue
      /\ row.receipt = NoValue
      /\ row.action = "create_jira_ticket" => row.lane = "ACTION_CONTROLLED"
  BY DEF NewRow, ChooseLane
<1> HIDE DEF row
<1>3. RowsStep(w)
  <2>1. tasks \in Rows
    BY DEF TypeInv, TypeOK, Rows
  <2>2. tasks'[t] = row /\ \A v \in Tasks \ {t} : tasks'[v] = tasks[v]
    BY <1>1, <2>1 DEF Rows
  <2> QED BY <1>1, <1>2, <2>2 DEF RowsStep
<1>4. SessionStep(w)
  BY <1>1 DEF Begin, SessionStep, OnlySession, TypeInv, SessionsOK
<1> QED BY <1>1, <1>3, <1>4, PlainFrame

LEMMA ReadFrame ==
  ASSUME TypeInv, NEW w \in Workers, NEW t \in Tasks, NEW actor \in Users,
         NEW state, NEW place \in {"approve", "reject", "resume"},
         ReadForDecision(w, t, actor, state, place)
  PROVE  Frame(w)
<1>1. SessionStep(w)
  BY DEF ReadForDecision, Begin, SessionStep, OnlySession, TypeInv, SessionsOK
<1> QED BY <1>1, SameRowsStep, PlainFrame DEF ReadForDecision

LEMMA CreationFrame ==
  ASSUME TypeInv, NEW w \in Workers,
         \/ CreateContract(w) \/ GatherDocuments(w) \/ StartAnalysis(w)
         \/ \E flagged \in BOOLEAN : RetrieveDocuments(w, flagged)
         \/ RejectAnalysis(w) \/ ConcludeCreation(w) \/ CreationFails(w)
  PROVE  Frame(w)
<1>1. ASSUME NEW from \in {"contract", "gather", "verify"},
             NEW to \in {"gather", "retrieve", "analyze"},
             NEW state \in {"CONTRACT_CREATED", "GATHERING", "VERIFYING"},
             Moves(from, to), Advance(w, from, state, to)
      PROVE  Frame(w)
  <2>1. /\ ~At(w, "idle") /\ ~At(w, "open")
        /\ Store(w, TaskRow(w), state)
        /\ Stores(session[w].at, TaskRow(w), state)
        /\ state \in TaskState
    BY <1>1 DEF Advance, Transition, Stores, Creating, CreationState, TaskState
  <2>2. RowsStep(w)
    BY <2>1, TransitionStep
  <2>3. SessionStep(w)
    BY <1>1, <2>1, GotoStep DEF Advance
  <2> QED BY <1>1, <2>2, <2>3, PlainFrame DEF Advance, Transition
<1>2. CreateContract(w) \/ GatherDocuments(w) \/ StartAnalysis(w) => Frame(w)
  BY <1>1 DEF CreateContract, GatherDocuments, StartAnalysis, Moves
<1>3. ASSUME NEW flagged \in BOOLEAN, RetrieveDocuments(w, flagged)
      PROVE  Frame(w)
  <2>1. SessionStep(w)
    BY <1>3, GotoStep DEF RetrieveDocuments, Moves
  <2> QED BY <1>3, <2>1, SameRowsStep, PlainFrame DEF RetrieveDocuments
<1>4. CASE RejectAnalysis(w) \/ ConcludeCreation(w) \/ CreationFails(w)
  <2>1. PICK state \in {"FAILED", "COMPLETED", "APPROVAL_PENDING"} :
          /\ Store(w, TaskRow(w), state)
          /\ Stores(session[w].at, TaskRow(w), state)
    BY <1>4 DEF RejectAnalysis, ConcludeCreation, CreationFails, Transition,
                Conclusion, Stores, Creating
  <2>2. ~At(w, "idle") /\ Finish(w) /\ state \in TaskState
    BY <1>4 DEF RejectAnalysis, ConcludeCreation, CreationFails, Creating, TaskState
  <2>3. RowsStep(w) /\ SessionStep(w)
    BY <2>1, <2>2, TransitionStep, FinishStep
  <2> QED BY <1>4, <2>3, PlainFrame
          DEF RejectAnalysis, ConcludeCreation, CreationFails, Transition, Log
<1> QED BY <1>2, <1>3, <1>4

LEMMA AnalyzeFrame ==
  ASSUME TypeInv, NEW w \in Workers, NEW content \in Contents,
         NEW verdict \in {"passed", "failed"}, Analyze(w, content, verdict)
  PROVE  Frame(w)
<1> DEFINE row == [TaskRow(w) EXCEPT !.analysis = content, !.verified = verdict]
<1>1. /\ ~At(w, "idle") /\ ~At(w, "open") /\ Moves(session[w].at, "judge")
      /\ Store(w, row, TaskRow(w).state)
      /\ Goto(w, "judge")
      /\ UNCHANGED <<approvals, attempts, audit, tickets>>
  BY DEF Analyze, Moves
<1>2. /\ row \in Row
      /\ row.user = TaskRow(w).user
      /\ row.project = TaskRow(w).project
      /\ row.action = TaskRow(w).action
      /\ row.lane = TaskRow(w).lane
      /\ row.mode = TaskRow(w).mode
      /\ row.preview = TaskRow(w).preview
      /\ row.receipt = TaskRow(w).receipt
  BY <1>1, InProgress DEF Row
<1> HIDE DEF row
<1>3. RowsStep(w)
  BY <1>1, <1>2, InProgress, StoreStep
<1> QED BY <1>1, <1>3, GotoStep, PlainFrame

\* The proposal of a task whose analysis is about to be judged.
LEMMA JudgedPreview ==
  ASSUME TypeInv, NEW w \in Workers, At(w, "judge")
  PROVE  /\ PreviewOf(TaskRow(w)) \in Key \cup {NoValue}
         /\ TaskRow(w).action = "create_jira_ticket" =>
              PreviewOf(TaskRow(w)) \in Key
<1>1. TaskRow(w) \in Row /\ TaskRow(w).analysis # NoValue
  BY InProgress DEF TypeInv, SessionsOK, Sound
<1> QED BY <1>1 DEF PreviewOf, Row, Key

LEMMA ProposalReadyFrame ==
  ASSUME TypeInv, NEW w \in Workers, ProposalReady(w)
  PROVE  /\ Frame(w)
         /\ tasks'[session[w].task].preview = PreviewOf(TaskRow(w))
<1> DEFINE preview == PreviewOf(TaskRow(w))
           row == [TaskRow(w) EXCEPT !.preview = preview]
<1>1. /\ ~At(w, "idle") /\ ~At(w, "open") /\ Moves(session[w].at, "conclude")
      /\ At(w, "judge")
      /\ Store(w, row, "PROPOSAL_READY")
      /\ Stores(session[w].at, TaskRow(w), "PROPOSAL_READY")
      /\ GotoSeeing(w, "conclude", "PROPOSAL_READY")
      /\ audit \subseteq audit'
      /\ UNCHANGED <<approvals, attempts, tickets>>
      /\ "PROPOSAL_READY" \in TaskState
  BY DEF ProposalReady, Moves, Transition, Stores, Creating, CreationState, TaskState
<1>2. TaskRow(w) \in Row
  BY <1>1, InProgress
<1>3. preview \in Key \cup {NoValue}
  BY <1>1, JudgedPreview
<1> HIDE DEF preview
<1>4. /\ row \in Row
      /\ row.user = TaskRow(w).user
      /\ row.project = TaskRow(w).project
      /\ row.action = TaskRow(w).action
      /\ row.lane = TaskRow(w).lane
      /\ row.mode = TaskRow(w).mode
      /\ row.preview = preview
      /\ row.receipt = TaskRow(w).receipt
  BY <1>2, <1>3 DEF Row
<1> HIDE DEF row
<1>5. /\ RowsStep(w)
      /\ tasks'[session[w].task].preview = preview
  <2>1. row.preview = PreviewOf(TaskRow(w))
    BY <1>4 DEF preview
  <2> QED BY <1>1, <1>4, <2>1, StoreStep
<1>6. Frame(w)
  BY <1>1, <1>5, GotoStep, PlainFrame
<1> QED BY <1>5, <1>6 DEF preview
LEMMA StoreDecisionFrame ==
  ASSUME TypeInv, NEW w \in Workers, StoreApproval(w) \/ StoreRejection(w)
  PROVE  Frame(w)
<1>1. /\ ~At(w, "idle") /\ ~At(w, "open")
      /\ audit \subseteq audit'
      /\ UNCHANGED <<tasks, attempts, tickets>>
  BY DEF StoreApproval, StoreRejection, StoreDecision, Log
<1>2. PICK place \in {"mark_approved", "mark_rejected"} :
        Moves(session[w].at, place) /\ Goto(w, place)
  BY DEF StoreApproval, StoreRejection, StoreDecision, Moves
<1>3. SessionStep(w) /\ RowsStep(w)
  BY <1>1, <1>2, GotoStep, SameRowsStep
<1>4. /\ StoreApproval(w) => At(w, "approve")
      /\ StoreRejection(w) => At(w, "reject")
  BY DEF StoreApproval, StoreRejection, StoreDecision
<1> QED BY <1>1, <1>3, <1>4 DEF Frame, AttemptsStep

\* The steps of an execution, or of the end of a decision, that store a state.
LEMMA StateFrame ==
  ASSUME TypeInv, NEW w \in Workers,
         \/ MarkApproved(w) \/ MarkRejected(w) \/ BeginExecution(w)
         \/ RecordSuccess(w) \/ RecordTimeout(w) \/ RecordReconciled(w)
         \/ CompleteAction(w)
  PROVE  Frame(w)
<1>1. PICK state \in {"APPROVED", "REJECTED", "EXECUTING", "CONFIRMING",
                      "RECONCILING", "COMPLETED"} :
        /\ Store(w, TaskRow(w), state)
        /\ Stores(session[w].at, TaskRow(w), state)
  BY DEF MarkApproved, MarkRejected, BeginExecution, RecordSuccess, RecordTimeout,
         RecordReconciled, CompleteAction, Transition, Stores
<1>2. /\ ~At(w, "idle") /\ ~At(w, "open") /\ state \in TaskState
      /\ audit \subseteq audit'
      /\ UNCHANGED <<approvals, tickets>>
  BY DEF MarkApproved, MarkRejected, BeginExecution, RecordSuccess, RecordTimeout,
         RecordReconciled, CompleteAction, Transition, Log, TaskState
<1>3. \/ Finish(w)
      \/ \E place, seen : Moves(session[w].at, place) /\ GotoSeeing(w, place, seen)
  BY DEF MarkApproved, MarkRejected, BeginExecution, RecordSuccess, RecordTimeout,
         RecordReconciled, CompleteAction, AfterApproval, Moves
<1>4. SessionStep(w)
  BY <1>2, <1>3, FinishStep, GotoStep
<1>5. RowsStep(w)
  BY <1>1, <1>2, TransitionStep
<1>6. AttemptsStep(w)
  BY DEF MarkApproved, MarkRejected, BeginExecution, RecordSuccess, RecordTimeout,
         RecordReconciled, CompleteAction, AttemptsStep
<1> QED BY <1>2, <1>4, <1>5, <1>6 DEF Frame

\* The steps that change no row and neither an attempt nor the tickets.
LEMMA QuietFrame ==
  ASSUME TypeInv, NEW w \in Workers,
         \/ DecisionConflict(w) \/ PauseAfterApproval(w) \/ LogResume(w)
         \/ FindTicket(w) \/ MissTicket(w) \/ CountTickets(w)
         \/ FindAfterTimeout(w) \/ ConfirmTicket(w) \/ RequestDies(w)
  PROVE  Frame(w)
<1>1. audit \subseteq audit' /\ UNCHANGED <<tasks, approvals, attempts, tickets>>
  BY DEF DecisionConflict, PauseAfterApproval, LogResume, FindTicket, MissTicket,
         CountTickets, FindAfterTimeout, ConfirmTicket, RequestDies, Log
<1>2. \/ Finish(w)
      \/ /\ ~At(w, "idle") /\ ~At(w, "open")
         /\ \E place, x : /\ Moves(session[w].at, place)
                          /\ \/ Goto(w, place)
                             \/ /\ GotoWith(w, place, x)
                                /\ session[w].at \in {"find", "count", "reconcile"}
  <2>1. DecisionConflict(w) \/ PauseAfterApproval(w) \/ RequestDies(w) => Finish(w)
    BY DEF DecisionConflict, PauseAfterApproval, RequestDies
  <2>2. LogResume(w) \/ MissTicket(w) \/ ConfirmTicket(w) =>
          /\ ~At(w, "idle") /\ ~At(w, "open")
          /\ \E place : Moves(session[w].at, place) /\ Goto(w, place)
    BY DEF LogResume, MissTicket, ConfirmTicket, Moves
  <2>3. FindTicket(w) \/ CountTickets(w) \/ FindAfterTimeout(w) =>
          /\ ~At(w, "idle") /\ ~At(w, "open")
          /\ \E place, x : /\ Moves(session[w].at, place)
                           /\ GotoWith(w, place, x)
                           /\ session[w].at \in {"find", "count", "reconcile"}
    BY DEF FindTicket, CountTickets, FindAfterTimeout, Moves
  <2> QED BY <2>1, <2>2, <2>3
<1>3. SessionStep(w)
  BY <1>2, FinishStep, GotoStep
<1> QED BY <1>1, <1>3, SameRowsStep, PlainFrame

LEMMA OpenAttemptFrame ==
  ASSUME TypeInv, NEW w \in Workers, OpenAttempt(w)
  PROVE  Frame(w)
<1>1. /\ session \in [Workers -> Session]
      /\ session' = [session EXCEPT ![w].at = "find",
                                    ![w].attempt = Len(attempts) + 1]
      /\ At(w, "open")
  BY DEF TypeInv, SessionsOK, OpenAttempt
<1>2. SessionStep(w) /\ session'[w].attempt = Len(attempts) + 1
  BY <1>1 DEF SessionStep, OnlySession, Session, Moves
<1>3. AttemptsStep(w)
  BY <1>1, <1>2 DEF OpenAttempt, AttemptsStep
<1> QED BY <1>2, <1>3, SameRowsStep DEF OpenAttempt, Frame, Log

LEMMA InsertTicketFrame ==
  ASSUME TypeInv, NEW w \in Workers, InsertTicket(w)
  PROVE  Frame(w)
<1>1. /\ ~At(w, "idle") /\ ~At(w, "open")
      /\ \E place : Moves(session[w].at, place) /\ Goto(w, place)
  BY DEF InsertTicket, AfterInsert, Moves
<1>2. SessionStep(w)
  BY <1>1, GotoStep
<1> QED BY <1>2, SameRowsStep DEF InsertTicket, Frame, AttemptsStep

LEMMA RecordReceiptFrame ==
  ASSUME TypeInv, NEW w \in Workers, RecordReceipt(w)
  PROVE  /\ Frame(w)
         /\ tasks'[session[w].task].receipt = session[w].result
<1> DEFINE row == [TaskRow(w) EXCEPT !.receipt = session[w].result]
<1>1. /\ ~At(w, "idle") /\ ~At(w, "open") /\ At(w, "receipt")
      /\ Moves(session[w].at, "complete")
      /\ Store(w, row, TaskRow(w).state)
      /\ Goto(w, "complete")
      /\ audit \subseteq audit'
      /\ UNCHANGED <<approvals, attempts, tickets>>
  BY DEF RecordReceipt, Moves, Log
<1>2. TaskRow(w) \in Row /\ session[w].result \in Receipt \cup {NoValue}
  BY <1>1, InProgress DEF Session
<1>3. /\ row \in Row
      /\ row.user = TaskRow(w).user
      /\ row.project = TaskRow(w).project
      /\ row.action = TaskRow(w).action
      /\ row.lane = TaskRow(w).lane
      /\ row.mode = TaskRow(w).mode
      /\ row.preview = TaskRow(w).preview
      /\ row.receipt = session[w].result
  BY <1>2 DEF Row
<1> HIDE DEF row
<1>4. RowsStep(w) /\ tasks'[session[w].task].receipt = session[w].result
  BY <1>1, <1>3, InProgress, StoreStep
<1> QED BY <1>1, <1>4, GotoStep, PlainFrame

LEMMA ExecutionFailsFrame ==
  ASSUME TypeInv, NEW w \in Workers, ExecutionFails(w)
  PROVE  Frame(w)
<1>1. SessionStep(w) /\ RowsStep(w)
  BY FinishStep, SameRowsStep DEF ExecutionFails
<1> QED BY <1>1 DEF ExecutionFails, Frame, AttemptsStep

Step(w) == Arrive(w) \/ Proceed(w) \/ CreationFails(w) \/ RequestDies(w)

LEMMA NextFrame ==
  ASSUME TypeInv, NEW w \in Workers, Step(w)
  PROVE  Frame(w)
<1>1. CASE Arrive(w)
  BY <1>1, CreateTaskFrame, ReadFrame DEF Arrive, Approve, Reject, Resume
<1>2. CASE Proceed(w)
  BY <1>2, CreationFrame, AnalyzeFrame, ProposalReadyFrame, StoreDecisionFrame,
     StateFrame, QuietFrame, OpenAttemptFrame, InsertTicketFrame,
     RecordReceiptFrame, ExecutionFailsFrame
  DEF Proceed
<1>3. CASE CreationFails(w) \/ RequestDies(w)
  BY <1>3, CreationFrame, QuietFrame
<1> QED BY <1>1, <1>2, <1>3 DEF Step

\* The action by which a request leaves a place, when it does not end.
LEMMA StepFrom ==
  ASSUME TypeInv, NEW w \in Workers, Step(w), session'[w].at # "idle"
  PROVE  /\ At(w, "idle") => Arrive(w)
         /\ At(w, "judge") => ProposalReady(w)
         /\ At(w, "approve") => StoreApproval(w)
         /\ At(w, "reject") => StoreRejection(w)
         /\ At(w, "mark_approved") => MarkApproved(w)
         /\ At(w, "execute") => BeginExecution(w)
         /\ At(w, "open") => OpenAttempt(w)
         /\ At(w, "find") => FindTicket(w) \/ MissTicket(w)
         /\ At(w, "count") => CountTickets(w)
         /\ At(w, "insert") => InsertTicket(w)
         /\ At(w, "succeed") => RecordSuccess(w)
         /\ At(w, "timed_out") => RecordTimeout(w)
         /\ At(w, "reconcile") => FindAfterTimeout(w)
         /\ At(w, "reconciled") => RecordReconciled(w)
         /\ At(w, "confirm") => ConfirmTicket(w)
         /\ At(w, "receipt") => RecordReceipt(w)
<1>1. Finish(w) => session'[w].at = "idle"
  BY DEF Finish, Idle, TypeInv, SessionsOK
<1>2. Arrive(w) => At(w, "idle")
  BY DEF Arrive, CreateTask, Approve, Reject, Resume, ReadForDecision
<1>3. ~CreationFails(w) /\ ~RequestDies(w)
  BY <1>1 DEF CreationFails, RequestDies
<1>4. CASE Arrive(w)
  BY <1>2, <1>4
<1>5. CASE Proceed(w)
  <2>1. ~Finish(w) /\ Proceed(w)
    BY <1>1, <1>5
  <2> QED BY <2>1
       DEF Proceed, CreateContract, GatherDocuments, StartAnalysis, Advance,
           RetrieveDocuments, Analyze, RejectAnalysis, ProposalReady,
           ConcludeCreation, StoreApproval, StoreRejection, StoreDecision,
           DecisionConflict, MarkApproved, MarkRejected, PauseAfterApproval,
           LogResume, BeginExecution, OpenAttempt, FindTicket, MissTicket,
           CountTickets, InsertTicket, RecordSuccess, RecordTimeout,
           FindAfterTimeout, RecordReconciled, ConfirmTicket, RecordReceipt,
           CompleteAction, ExecutionFails
<1> QED BY <1>3, <1>4, <1>5 DEF Step
-----------------------------------------------------------------------------
(* What a Frame keeps.                                                     *)

LEMMA DecidedRow ==
  ASSUME IInv, NEW w \in Workers, Frame(w), NEW t \in Tasks, Exists(t),
         DecisionTaken(t)
  PROVE  tasks'[t].preview = tasks[t].preview
<1>1. At(w, "judge") => session[w].task # t
  BY DEF IInv, DecisionInv, CreatorsAlone, Creating
<1> QED BY <1>1 DEF Frame, RowsStep

\* The task of a request that executes keeps its proposal.
LEMMA ExecutedRow ==
  ASSUME IInv, NEW w \in Workers, Frame(w), NEW v \in Workers,
         session[v].at \in Executing
  PROVE  /\ session[v].task \in Tasks
         /\ tasks[session[v].task] # NoValue
         /\ tasks'[session[v].task] # NoValue
         /\ Granted(session[v].task)
         /\ tasks'[session[v].task].preview = tasks[session[v].task].preview
<1>1. session[v].at # "idle"
  BY DEF Executing
<1>2. /\ session[v].task \in Tasks
      /\ tasks[session[v].task] # NoValue
      /\ tasks'[session[v].task] # NoValue
  BY <1>1, SessionFacts DEF IInv, Frame, RowsStep
<1>3. Granted(session[v].task)
  BY DEF IInv, DecisionInv, ExecutorsGranted
<1>4. DecisionTaken(session[v].task)
  BY <1>3 DEF Granted, DecisionTaken
<1> QED BY <1>2, <1>3, <1>4, DecidedRow

LEMMA TicketsStay ==
  ASSUME NEW w \in Workers, Frame(w)
  PROVE  tickets \subseteq tickets'
  BY DEF Frame, InsertTicket, AddTicket

LEMMA AttemptsKept ==
  ASSUME TypeInv, NEW w \in Workers, Frame(w)
  PROVE  /\ \A i \in DOMAIN attempts :
              /\ i \in DOMAIN attempts'
              /\ attempts'[i].task = attempts[i].task
              /\ attempts'[i].key = attempts[i].key
              /\ \/ attempts'[i].status = attempts[i].status
                 \/ /\ session[w].at \in Written /\ i = session[w].attempt
                    /\ attempts'[i].status = "FAILED_UNCONFIRMED" =>
                         At(w, "reconcile") /\ ExecutionRefused(w)
         /\ \A i \in DOMAIN attempts' : i \notin DOMAIN attempts =>
              /\ At(w, "open")
              /\ attempts'[i] = NewAttempt(session[w].task, TaskRow(w).preview)
         /\ At(w, "open") /\ attempts' # attempts =>
              /\ session'[w].attempt \in DOMAIN attempts'
              /\ attempts'[session'[w].attempt]
                   = NewAttempt(session[w].task, TaskRow(w).preview)
<1>1. attempts \in Seq(Attempt)
  BY DEF TypeInv, TypeOK
<1>2. CASE attempts' = attempts
  BY <1>2
<1>3. CASE /\ At(w, "open")
           /\ attempts' = Append(attempts, NewAttempt(session[w].task, TaskRow(w).preview))
           /\ session'[w].attempt = Len(attempts) + 1
  <2> DEFINE a == NewAttempt(session[w].task, TaskRow(w).preview)
  <2> HIDE DEF a
  <2>1. attempts' = Append(attempts, a) /\ session'[w].attempt = Len(attempts) + 1
    BY <1>3 DEF a
  <2>2. /\ \A i \in DOMAIN attempts : i \in DOMAIN attempts' /\ attempts'[i] = attempts[i]
        /\ \A i \in DOMAIN attempts' : i \notin DOMAIN attempts =>
             attempts'[i] = a
        /\ Len(attempts) + 1 \in DOMAIN attempts'
        /\ attempts'[Len(attempts) + 1] = a
    BY <1>1, <2>1
  <2> QED BY <1>3, <2>1, <2>2 DEF a
<1>4. ASSUME NEW status, SetAttempt(w, status), session[w].at \in Written,
             status = "FAILED_UNCONFIRMED" => At(w, "reconcile") /\ ExecutionRefused(w)
      PROVE  /\ \A i \in DOMAIN attempts :
                  /\ i \in DOMAIN attempts'
                  /\ attempts'[i].task = attempts[i].task
                  /\ attempts'[i].key = attempts[i].key
                  /\ \/ attempts'[i].status = attempts[i].status
                     \/ i = session[w].attempt /\ attempts'[i].status = status
             /\ DOMAIN attempts' = DOMAIN attempts
             /\ ~At(w, "open")
  BY <1>1, <1>4 DEF SetAttempt, Attempt, Written
<1>5. CASE /\ session[w].at \in {"succeed", "timed_out", "reconciled"}
           /\ \E status \in {"SUCCEEDED", "TIMEOUT_UNKNOWN", "RECONCILED"} :
                SetAttempt(w, status)
  BY <1>4, <1>5 DEF Written
<1>6. CASE /\ At(w, "reconcile") /\ ExecutionRefused(w)
           /\ SetAttempt(w, "FAILED_UNCONFIRMED")
  BY <1>4, <1>6 DEF Written
<1> QED BY <1>2, <1>3, <1>5, <1>6 DEF Frame, AttemptsStep

-----------------------------------------------------------------------------
(* TruthInv is inductive.                                                  *)

LEMMA FoundKept ==
  ASSUME IInv, TruthInv, NEW w \in Workers, Step(w)
  PROVE  WritesFound'
<1>0. Frame(w) /\ tickets \subseteq tickets'
  BY NextFrame, TicketsStay DEF Step, IInv
<1> SUFFICES ASSUME NEW v \in Workers, session'[v].at \in Written
             PROVE  \E x \in tickets' :
                      /\ x.key = tasks'[session'[v].task].preview
                      /\ x.num = session'[v].result.num
  BY DEF WritesFound, Confirmed, FindByKey
<1>1. ASSUME NEW u \in Workers, session[u].at \in Written
      PROVE  \E x \in tickets' :
               /\ x.key = tasks'[session[u].task].preview
               /\ x.num = session[u].result.num
  <2>1. session[u].at \in Executing
    BY <1>1 DEF Written, Executing
  <2> QED BY <1>0, <1>1, <2>1, ExecutedRow
          DEF TruthInv, WritesFound, Confirmed, FindByKey
<1>2. CASE v # w
  BY <1>0, <1>1, <1>2 DEF Frame, SessionStep, OnlySession
<1>3. CASE v = w
  <2>1. /\ ~At(w, "idle")
        /\ session'[w].at # "idle"
        /\ Moves(session[w].at, session'[w].at)
        /\ session'[w].task = session[w].task
        /\ session[w].at \notin {"find", "count", "reconcile"} =>
             session'[w].result = session[w].result
    BY <1>0, <1>3 DEF Frame, SessionStep, Idle, Written
  <2>2. session[w].at \in {"find", "insert", "reconcile"} \cup Written
    BY <1>3, <2>1 DEF Moves, Written
  <2>3. session \in [Workers -> Session] /\ session[w] \in Session
    BY DEF IInv, TypeInv, SessionsOK
  <2>4. CASE At(w, "find")
    <3>1. FindTicket(w)
      <4>1. FindTicket(w) \/ MissTicket(w)
        BY <2>1, <2>4, StepFrom DEF IInv
      <4>2. MissTicket(w) => session'[w].at = "count"
        BY <2>3 DEF MissTicket, Goto, Session
      <4> QED BY <1>3, <4>1, <4>2 DEF Written
    <3>2. PICK x \in FindByKey(TaskRow(w).preview) : GotoWith(w, "succeed", Replay(x))
      BY <3>1 DEF FindTicket
    <3>3. session'[w].result = Replay(x) /\ tasks' = tasks /\ tickets' = tickets
      BY <2>3, <3>1, <3>2 DEF GotoWith, Session, FindTicket
    <3> QED BY <1>3, <2>1, <3>2, <3>3 DEF FindByKey, Replay, Found
  <2>5. CASE At(w, "insert")
    <3>1. InsertTicket(w)
      BY <2>1, <2>5, StepFrom DEF IInv
    <3> DEFINE x == [key |-> TaskRow(w).preview, num |-> session[w].result.num]
    <3>2. x \in tickets' /\ tasks' = tasks
      BY <3>1 DEF InsertTicket, AddTicket
    <3>3. x.key = TaskRow(w).preview /\ x.num = session[w].result.num
      OBVIOUS
    <3> HIDE DEF x
    <3>4. session'[w].result = session[w].result
      BY <2>1, <2>5
    <3> QED BY <1>3, <2>1, <3>2, <3>3, <3>4
  <2>6. CASE At(w, "reconcile")
    <3>1. FindAfterTimeout(w)
      BY <2>1, <2>6, StepFrom DEF IInv
    <3>2. PICK x \in FindByKey(TaskRow(w).preview) :
            GotoWith(w, "reconciled", Found(x.num, TRUE, TRUE))
      BY <3>1 DEF FindAfterTimeout
    <3>3. session'[w].result = Found(x.num, TRUE, TRUE) /\ tasks' = tasks
          /\ tickets' = tickets
      BY <2>3, <3>1, <3>2 DEF GotoWith, Session, FindAfterTimeout
    <3> QED BY <1>3, <2>1, <3>2, <3>3 DEF FindByKey, Found
  <2>7. CASE session[w].at \in Written \ {"reconcile"}
    BY <1>1, <1>3, <2>1, <2>7 DEF Written
  <2> QED BY <2>2, <2>4, <2>5, <2>6, <2>7
<1> QED BY <1>2, <1>3

\* A row that is complete, or has a receipt.
LEMMA ReceiptsKept ==
  ASSUME IInv, TruthInv, NEW w \in Workers, Step(w)
  PROVE  ReceiptsStored' /\ ReceiptsNameTickets' /\ CompletedHasReceipt'
<1>0. Frame(w) /\ tickets \subseteq tickets'
  BY NextFrame, TicketsStay DEF Step, IInv
<1>1. At(w, "receipt") =>
        /\ session[w].result \in Receipt
        /\ session[w].result # NoValue
        /\ Confirmed(w)
  <2> SUFFICES ASSUME At(w, "receipt")
               PROVE  /\ session[w].result \in Receipt
                      /\ session[w].result # NoValue
                      /\ Confirmed(w)
    OBVIOUS
  <2>1. session[w].at \in Numbered /\ session[w].at \in Written
    BY DEF Numbered, Attempted, InGateway, Written
  <2> QED BY <2>1 DEF IInv, TypeInv, SessionsOK, Sound, Session, TruthInv, WritesFound
<1>2. ASSUME NEW t \in Tasks, tasks[t] # NoValue, tasks[t].receipt # NoValue
      PROVE  tasks'[t] # NoValue /\ tasks'[t].receipt # NoValue
  BY <1>0, <1>1, <1>2 DEF Frame, RowsStep
<1>3. ReceiptsStored'
  <2> SUFFICES ASSUME NEW v \in Workers, session'[v].at = "complete"
               PROVE  tasks'[session'[v].task].receipt # NoValue
    BY DEF ReceiptsStored
  <2>1. CASE v # w
    <3>1. session'[v] = session[v] /\ session[v].at \in Executing
      BY <1>0, <2>1 DEF Frame, SessionStep, OnlySession, Executing
    <3> QED BY <1>0, <1>2, <3>1, ExecutedRow DEF TruthInv, ReceiptsStored
  <2>2. CASE v = w
    <3>1. /\ session'[w].at # "idle"
          /\ At(w, "receipt")
          /\ session'[w].task = session[w].task
      BY <1>0, <2>2 DEF Frame, SessionStep, Idle, Moves
    <3>2. RecordReceipt(w)
      BY <3>1, StepFrom DEF IInv
    <3> QED BY <1>1, <2>2, <3>1, <3>2, RecordReceiptFrame DEF IInv
  <2> QED BY <2>1, <2>2
<1>4. ReceiptsNameTickets'
  <2> SUFFICES ASSUME NEW t \in Tasks, tasks'[t] # NoValue,
                      tasks'[t].receipt # NoValue
               PROVE  \E x \in tickets' : /\ x.key = tasks'[t].preview
                                          /\ x.num = tasks'[t].receipt.num
    BY DEF ReceiptsNameTickets, FindByKey
  <2>1. tasks[t] # NoValue
    BY <1>0 DEF Frame, RowsStep
  <2>2. CASE tasks'[t].receipt = tasks[t].receipt
    <3>1. DecisionTaken(t)
      BY <2>1, <2>2 DEF IInv, DecisionInv, RowsJustified, Granted, DecisionTaken
    <3>2. tasks'[t].preview = tasks[t].preview
      BY <1>0, <2>1, <3>1, DecidedRow
    <3> QED BY <1>0, <2>1, <2>2, <3>2 DEF TruthInv, ReceiptsNameTickets, FindByKey
  <2>3. CASE tasks'[t].receipt # tasks[t].receipt
    <3>1. /\ At(w, "receipt") /\ session[w].task = t
          /\ tasks'[t].receipt = session[w].result
          /\ tasks'[t].preview = tasks[t].preview
      BY <1>0, <2>1, <2>3 DEF Frame, RowsStep
    <3> QED BY <1>0, <1>1, <3>1 DEF Confirmed, FindByKey
  <2> QED BY <2>2, <2>3
<1>5. CompletedHasReceipt'
  <2> SUFFICES ASSUME NEW t \in Tasks, tasks'[t] # NoValue,
                      tasks'[t].action = "create_jira_ticket",
                      tasks'[t].state = "COMPLETED"
               PROVE  tasks'[t].receipt # NoValue
    BY DEF CompletedHasReceipt, ActionTask
  <2>1. tasks[t] # NoValue /\ tasks[t].action = "create_jira_ticket"
    BY <1>0 DEF Frame, RowsStep
  <2>2. CASE tasks[t].state = "COMPLETED"
    BY <1>2, <2>1, <2>2 DEF TruthInv, CompletedHasReceipt, ActionTask
  <2>3. CASE tasks[t].state # "COMPLETED"
    <3>1. session[w].task = t /\ Stores(session[w].at, tasks[t], "COMPLETED")
      BY <1>0, <2>1, <2>3 DEF Frame, RowsStep
    <3>2. At(w, "complete")
      BY <2>1, <3>1 DEF Stores, Conclusion, CreationState
    <3> QED BY <1>2, <2>1, <3>1, <3>2 DEF TruthInv, ReceiptsStored
  <2> QED BY <2>2, <2>3
<1> QED BY <1>3, <1>4, <1>5

LEMMA KeysKept ==
  ASSUME TruthInv, NEW w \in Workers, Frame(w)
  PROVE  KeysDistinct'
<1>1. CASE tickets' = tickets
  BY <1>1 DEF TruthInv, KeysDistinct
<1>2. CASE InsertTicket(w)
  <2>1. /\ \A y \in tickets : y.key # TaskRow(w).preview
        /\ \A x, y \in tickets' :
             x.key = y.key => (x \in tickets /\ y \in tickets) \/ x = y
    BY <1>2 DEF InsertTicket, Clashes, AddTicket
  <2> QED BY <2>1 DEF TruthInv, KeysDistinct
<1> QED BY <1>1, <1>2 DEF Frame

LEMMA InitTruth == Init => TruthInv
<1> SUFFICES ASSUME Init PROVE TruthInv
  OBVIOUS
<1>1. \A w \in Workers : session[w].at = "idle"
  BY DEF Init, Idle
<1>2. WritesFound /\ ReceiptsStored
  BY <1>1 DEF WritesFound, ReceiptsStored, Written
<1>3. ReceiptsNameTickets /\ CompletedHasReceipt /\ KeysDistinct
  BY DEF Init, ReceiptsNameTickets, CompletedHasReceipt, ActionTask, KeysDistinct
<1> QED BY <1>2, <1>3 DEF TruthInv

LEMMA NextTruth ==
  IInv /\ TruthInv /\ [Next]_vars => TruthInv'
<1> SUFFICES ASSUME IInv, TruthInv, [Next]_vars PROVE TruthInv'
  OBVIOUS
<1>1. ASSUME NEW w \in Workers, Step(w) PROVE TruthInv'
  BY <1>1, NextFrame, FoundKept, ReceiptsKept, KeysKept DEF TruthInv, IInv
<1>2. CASE UNCHANGED vars
  BY <1>2 DEF vars, TruthInv, WritesFound, Confirmed, FindByKey, ReceiptsStored,
              ReceiptsNameTickets, CompletedHasReceipt, ActionTask, KeysDistinct
<1> QED BY <1>1, <1>2 DEF Next, Step

\* Who is past the insert finds the ticket under the number it holds, and what
\* receipts say follows from it.
THEOREM TruthInvariant == Spec => []TruthInv
  BY InitTruth, NextTruth, DecisionInvariant, PTL DEF Spec

\* No action task is COMPLETED without a receipt, and a receipt names a ticket
\* for the task's own proposal that is in the store.
THEOREM CompletionIsConfirmed == Spec => []CompletedIsConfirmed
<1>1. TruthInv => CompletedIsConfirmed
  BY DEF TruthInv, CompletedIsConfirmed, CompletedHasReceipt, ReceiptsNameTickets,
         ActionTask
<1> QED BY <1>1, TruthInvariant, PTL

-----------------------------------------------------------------------------
(* EffectsInv: attempts and tickets are those of granted tasks.            *)

LEMMA AnnouncedKept ==
  ASSUME IInv, EffectsInv, NEW w \in Workers, Step(w)
  PROVE  AttemptsAnnounce'
<1>0. Frame(w)
  BY NextFrame DEF Step, IInv
<1> SUFFICES ASSUME NEW v \in Workers, session'[v].at \in Attempted
             PROVE  /\ attempts'[session'[v].attempt].task = session'[v].task
                    /\ attempts'[session'[v].attempt].key
                         = tasks'[session'[v].task].preview
  BY DEF AttemptsAnnounce
<1>1. ASSUME NEW u \in Workers, session[u].at \in Attempted
      PROVE  /\ session[u].attempt \in DOMAIN attempts
             /\ attempts'[session[u].attempt].task = session[u].task
             /\ attempts'[session[u].attempt].key = tasks'[session[u].task].preview
  <2>1. session[u].attempt \in DOMAIN attempts
    BY <1>1 DEF IInv, TypeInv, TypeOK, SessionsOK, Sound
  <2>2. session[u].at \in Executing
    BY <1>1 DEF Attempted, InGateway, Executing
  <2> QED BY <1>0, <1>1, <2>1, <2>2, AttemptsKept, ExecutedRow
          DEF IInv, EffectsInv, AttemptsAnnounce
<1>2. CASE v # w
  BY <1>0, <1>1, <1>2 DEF Frame, SessionStep, OnlySession
<1>3. CASE v = w
  <2>1. /\ ~At(w, "idle")
        /\ Moves(session[w].at, session'[w].at)
        /\ session'[w].task = session[w].task
        /\ ~At(w, "open") => session'[w].attempt = session[w].attempt
    BY <1>0, <1>3 DEF Frame, SessionStep, Idle, Attempted, InGateway
  <2>2. CASE At(w, "open")
    <3>1. OpenAttempt(w)
      BY <1>3, <2>2, StepFrom DEF Idle, Attempted, InGateway, IInv
    <3>2. attempts' # attempts
      BY <3>1 DEF OpenAttempt, IInv, TypeInv, TypeOK
    <3>3. tasks' = tasks
      BY <3>1 DEF OpenAttempt
    <3>4. attempts'[session'[w].attempt]
            = NewAttempt(session[w].task, TaskRow(w).preview)
      BY <1>0, <2>2, <3>2, AttemptsKept DEF IInv
    <3> QED BY <1>3, <2>1, <3>3, <3>4 DEF NewAttempt
  <2>3. CASE ~At(w, "open")
    <3>1. session[w].at \in Attempted
      BY <1>3, <2>1, <2>3 DEF Moves, Attempted, InGateway
    <3> QED BY <1>1, <1>3, <2>1, <2>3, <3>1
  <2> QED BY <2>2, <2>3
<1> QED BY <1>2, <1>3

LEMMA TruthfulKept ==
  ASSUME IInv, TruthInv, EffectsInv, NEW w \in Workers, Step(w)
  PROVE  AttemptsAreTruthful'
<1>0. Frame(w) /\ tickets \subseteq tickets'
  BY NextFrame, TicketsStay DEF Step, IInv
<1>1. ASSUME NEW i \in DOMAIN attempts',
             attempts'[i].status \in {"SUCCEEDED", "TIMEOUT_UNKNOWN", "RECONCILED"}
      PROVE  \E x \in tickets' : x.key = attempts'[i].key
  <2>1. i \in DOMAIN attempts
    <3>1. i \notin DOMAIN attempts =>
            attempts'[i] = NewAttempt(session[w].task, TaskRow(w).preview)
      BY <1>0, AttemptsKept DEF IInv
    <3> QED BY <1>1, <3>1 DEF NewAttempt
  <2>2. /\ attempts'[i].key = attempts[i].key
        /\ \/ attempts'[i].status = attempts[i].status
           \/ session[w].at \in Written /\ i = session[w].attempt
    BY <1>0, <1>1, <2>1, AttemptsKept DEF IInv
  <2>3. CASE attempts'[i].status = attempts[i].status
    BY <1>0, <1>1, <2>1, <2>2, <2>3 DEF EffectsInv, AttemptsAreTruthful, FindByKey
  <2>4. CASE session[w].at \in Written /\ i = session[w].attempt
    <3>1. session[w].at \in Attempted
      BY <2>4 DEF Written, Attempted, InGateway
    <3>2. attempts[i].key = TaskRow(w).preview
      BY <2>4, <3>1 DEF EffectsInv, AttemptsAnnounce
    <3>3. \E x \in tickets : x.key = TaskRow(w).preview
      BY <2>4 DEF TruthInv, WritesFound, Confirmed, FindByKey
    <3> QED BY <1>0, <2>2, <3>2, <3>3 DEF FindByKey
  <2> QED BY <2>2, <2>3, <2>4
<1>2. ASSUME NEW x \in tickets'
      PROVE  \E i \in DOMAIN attempts' : attempts'[i].key = x.key
  <2>1. CASE x \in tickets
    BY <1>0, <2>1, AttemptsKept DEF EffectsInv, AttemptsAreTruthful, IInv
  <2>2. CASE x \notin tickets
    <3>1. InsertTicket(w)
      BY <1>0, <2>2 DEF Frame
    <3>2. x.key = TaskRow(w).preview /\ session[w].at \in Attempted
          /\ attempts' = attempts
      BY <1>2, <2>2, <3>1 DEF InsertTicket, AddTicket, Attempted, InGateway
    <3>3. session[w].attempt \in DOMAIN attempts
      BY <3>2 DEF IInv, TypeInv, TypeOK, SessionsOK, Sound
    <3> QED BY <3>2, <3>3 DEF EffectsInv, AttemptsAnnounce
  <2> QED BY <2>1, <2>2
<1> QED BY <1>1, <1>2 DEF AttemptsAreTruthful, FindByKey

LEMMA ApprovalsStay ==
  ASSUME NEW w \in Workers, Frame(w)
  PROVE  approvals \subseteq approvals'
  BY DEF Frame, StoreApproval, StoreRejection, StoreDecision

LEMMA EffectsGrantedKept ==
  ASSUME IInv, EffectsInv, NEW w \in Workers, Step(w)
  PROVE  AttemptsGranted' /\ TicketsGranted'
<1>0. Frame(w)
  BY NextFrame DEF IInv
<1>1. AttemptsGranted'
  <2> SUFFICES ASSUME NEW i \in DOMAIN attempts'
               PROVE  \E a \in approvals : /\ a.task = attempts'[i].task
                                           /\ a.decision = "approved"
    BY <1>0, ApprovalsStay DEF AttemptsGranted, Granted
  <2>1. CASE i \in DOMAIN attempts
    BY <1>0, <2>1, AttemptsKept DEF IInv, EffectsInv, AttemptsGranted, Granted
  <2>2. CASE i \notin DOMAIN attempts
    <3>1. At(w, "open") /\ attempts'[i].task = session[w].task
      <4>1. attempts'[i] = NewAttempt(session[w].task, TaskRow(w).preview)
        BY <1>0, <2>2, AttemptsKept DEF IInv
      <4> QED BY <1>0, <2>2, <4>1, AttemptsKept DEF IInv, NewAttempt
    <3> QED BY <1>0, <3>1, ExecutedRow DEF Executing, Granted
  <2> QED BY <2>1, <2>2
<1>2. ASSUME NEW x \in tickets'
      PROVE  \E t \in Tasks : /\ tasks'[t] # NoValue
                              /\ tasks'[t].preview = x.key
                              /\ Granted(t)'
  <2>1. PICK t \in Tasks :
          tasks[t] # NoValue /\ tasks[t].preview = x.key /\ Granted(t)
    <3>1. CASE x \in tickets
      BY <3>1 DEF EffectsInv, TicketsGranted
    <3>2. CASE x \notin tickets
      <4>1. At(w, "insert") /\ x.key = TaskRow(w).preview
        BY <1>0, <1>2, <3>2 DEF Frame, InsertTicket, AddTicket
      <4> QED BY <1>0, <4>1, ExecutedRow DEF Executing
    <3> QED BY <3>1, <3>2
  <2>2. DecisionTaken(t)
    BY <2>1 DEF Granted, DecisionTaken
  <2>3. tasks'[t] # NoValue /\ tasks'[t].preview = x.key
    BY <1>0, <2>1, <2>2, DecidedRow DEF Frame, RowsStep
  <2> QED BY <1>0, <2>1, <2>3, ApprovalsStay DEF Granted
<1> QED BY <1>1, <1>2 DEF TicketsGranted

LEMMA InitEffects == Init => EffectsInv
  BY DEF Init, Idle, EffectsInv, AttemptsGranted, TicketsGranted, AttemptsAnnounce,
         AttemptsAreTruthful, Attempted, InGateway

LEMMA NextEffects ==
  IInv /\ TruthInv /\ EffectsInv /\ [Next]_vars => EffectsInv'
<1> SUFFICES ASSUME IInv, TruthInv, EffectsInv, [Next]_vars PROVE EffectsInv'
  OBVIOUS
<1>1. ASSUME NEW w \in Workers, Step(w) PROVE EffectsInv'
  BY <1>1, AnnouncedKept, TruthfulKept, EffectsGrantedKept DEF EffectsInv
<1>2. CASE UNCHANGED vars
  BY <1>2 DEF vars, EffectsInv, AttemptsGranted, TicketsGranted, Granted,
              AttemptsAnnounce, AttemptsAreTruthful, FindByKey
<1> QED BY <1>1, <1>2 DEF Next, Step

\* Attempts and tickets belong to tasks whose approval is stored, and the attempt
\* of an execution announces what it is going to write.
THEOREM EffectsInvariant == Spec => []EffectsInv
  BY InitEffects, NextEffects, DecisionInvariant, TruthInvariant, PTL DEF Spec

\* For any number of tasks and overlapping requests, any memberships and any
\* faults: a ticket exists only for a task that a member with can_approve has
\* approved and whose requester may write to its project.
THEOREM WritesAreApproved == Spec => []NoWriteBeforeApproval
<1>1. IInv /\ EffectsInv => NoWriteBeforeApproval
  <2> SUFFICES ASSUME IInv, EffectsInv, NEW x \in tickets
               PROVE  \E t \in Tasks : /\ Exists(t)
                                       /\ tasks[t].preview = x.key
                                       /\ Approved(t)
                                       /\ CanWrite(tasks[t].user, tasks[t].project)
    BY DEF NoWriteBeforeApproval
  <2>1. PICK t \in Tasks : Exists(t) /\ tasks[t].preview = x.key /\ Granted(t)
    BY DEF EffectsInv, TicketsGranted
  <2>2. Approved(t)
    BY <2>1 DEF Granted, Approved, IInv, DecisionInv, DecisionsAuthorized
  <2>3. tasks[t].preview # NoValue
    BY <2>1, WorkflowAssumption DEF IInv, TypeInv, TypeOK
  <2>4. CanWrite(tasks[t].user, tasks[t].project)
    BY <2>1, <2>3 DEF IInv, TypeInv, PreviewsOK, DecisionInv, RowsJustified
  <2> QED BY <2>1, <2>2, <2>4
<1> QED BY <1>1, DecisionInvariant, EffectsInvariant, PTL

\* A stored rejection stays in force against every approval and resume that
\* read the task before it.
THEOREM RejectionsAreFinal == Spec => []RejectionIsFinal
<1>1. IInv /\ EffectsInv => RejectionIsFinal
  <2> SUFFICES ASSUME IInv, EffectsInv, NEW a \in approvals, a.decision = "rejected"
               PROVE  /\ tasks[a.task].state \in {"APPROVAL_PENDING", "REJECTED"}
                      /\ tasks[a.task].receipt = NoValue
                      /\ \A i \in DOMAIN attempts : attempts[i].task # a.task
    BY DEF RejectionIsFinal
  <2>1. a.task \in Tasks /\ Exists(a.task)
    BY DEF IInv, TypeInv, TypeOK, Approval, DecisionInv, DecisionsAuthorized
  <2>2. Denied(a.task) /\ ~Granted(a.task)
    BY DEF Denied, Granted, IInv, DecisionInv, OneDecision
  <2>3. \A i \in DOMAIN attempts : attempts[i].task # a.task
    BY <2>2 DEF EffectsInv, AttemptsGranted
  <2> QED BY <2>1, <2>2, <2>3 DEF IInv, DecisionInv, RowsJustified
<1> QED BY <1>1, DecisionInvariant, EffectsInvariant, PTL

\* For any number of tasks and overlapping requests and any faults: an attempt
\* whose status says that the call succeeded, timed out or was reconciled has
\* its ticket, and no ticket was written without an attempt row before it.
THEOREM AttemptsTellTheTruth == Spec => []AttemptsAreTruthful
<1>1. EffectsInv => AttemptsAreTruthful
  BY DEF EffectsInv
<1> QED BY <1>1, EffectsInvariant, PTL

-----------------------------------------------------------------------------
(* What creation and approval admit, the gateway and the postcondition do  *)
(* not refuse.                                                             *)

LEMMA ControlledKept ==
  ASSUME IInv, AdmittedInv, NEW w \in Workers, Frame(w)
  PROVE  ActionsControlled'
  BY DEF AdmittedInv, ActionsControlled, ActionTask, Frame, RowsStep

\* A proposal, once made, stays.
LEMMA PreviewStays ==
  ASSUME IInv, NEW w \in Workers, Step(w), NEW t \in Tasks, Exists(t),
         tasks[t].preview # NoValue
  PROVE  tasks'[t].preview # NoValue
<1>1. Frame(w)
  BY NextFrame DEF IInv
<1>2. CASE tasks'[t].preview = tasks[t].preview
  BY <1>2
<1>3. CASE /\ At(w, "judge") /\ session[w].task = t
           /\ tasks'[t].preview = PreviewOf(tasks[t])
  <2>1. PreviewOf(tasks[t]) \in Key
    BY <1>3, JudgedPreview DEF IInv, TypeInv, PreviewsOK
  <2> QED BY <1>3, <2>1, WorkflowAssumption
<1> QED BY <1>1, <1>2, <1>3 DEF Frame, RowsStep
LEMMA PreviewsKept ==
  ASSUME IInv, AdmittedInv, NEW w \in Workers, Step(w)
  PROVE  PendingHasPreview'
<1>0. Frame(w)
  BY NextFrame DEF IInv
<1>1. ASSUME NEW v \in Workers, session'[v].at = "conclude",
             tasks'[session'[v].task] # NoValue,
             tasks'[session'[v].task].action = "create_jira_ticket"
      PROVE  tasks'[session'[v].task].preview # NoValue
  <2>1. CASE v # w
    <3>1. session'[v] = session[v] /\ session[v].at # "idle"
      BY <1>0, <1>1, <2>1 DEF Frame, SessionStep, OnlySession
    <3>2. session[v].task \in Tasks /\ tasks[session[v].task] # NoValue
      BY <3>1, SessionFacts DEF IInv
    <3>3. tasks'[session[v].task].action = tasks[session[v].task].action
      BY <1>0, <3>2 DEF Frame, RowsStep
    <3>4. tasks[session[v].task].preview # NoValue
      BY <1>1, <3>1, <3>2, <3>3 DEF AdmittedInv, PendingHasPreview, ActionTask
    <3> QED BY <3>1, <3>2, <3>4, PreviewStays
  <2>2. CASE v = w
    <3>1. /\ session'[w].at # "idle" /\ At(w, "judge")
          /\ session'[w].task = session[w].task
      BY <1>0, <1>1, <2>2 DEF Frame, SessionStep, Idle, Moves
    <3>2. ProposalReady(w)
      BY <3>1, StepFrom DEF IInv
    <3>3. session[w].task \in Tasks /\ tasks[session[w].task] # NoValue
      BY <3>1, SessionFacts DEF IInv
    <3>4. TaskRow(w).action = "create_jira_ticket"
      BY <1>0, <1>1, <2>2, <3>1, <3>3 DEF Frame, RowsStep, ActionTask
    <3> QED BY <2>2, <3>1, <3>2, <3>4, JudgedPreview, ProposalReadyFrame,
               WorkflowAssumption DEF IInv
  <2> QED BY <2>1, <2>2
<1>2. ASSUME NEW t \in Tasks, tasks'[t] # NoValue,
             tasks'[t].state = "APPROVAL_PENDING"
      PROVE  tasks'[t].preview # NoValue
  <2>1. tasks[t] # NoValue
    BY <1>0, <1>2 DEF Frame, RowsStep
  <2>2. CASE tasks[t].state = "APPROVAL_PENDING"
    BY <2>1, <2>2, PreviewStays DEF AdmittedInv, PendingHasPreview
  <2>3. CASE tasks[t].state # "APPROVAL_PENDING"
    <3>1. session[w].task = t /\ Stores(session[w].at, tasks[t], "APPROVAL_PENDING")
      BY <1>0, <1>2, <2>1, <2>3 DEF Frame, RowsStep
    <3>2. At(w, "conclude") /\ tasks[t].action # "none"
      BY <3>1 DEF Stores, CreationState, Conclusion
    <3>3. tasks[t].action = "create_jira_ticket"
      BY <2>1, <3>2 DEF IInv, TypeInv, TypeOK, Row, RequestedAction
    <3>4. tasks[t].preview # NoValue
      BY <2>1, <3>1, <3>2, <3>3 DEF AdmittedInv, PendingHasPreview, ActionTask
    <3> QED BY <2>1, <3>4, PreviewStays
  <2> QED BY <2>2, <2>3
<1>3. ASSUME NEW v \in Workers, session'[v].at \in Deciding
      PROVE  tasks'[session'[v].task].preview # NoValue
  <2>1. ASSUME NEW u \in Workers, session[u].at \in Deciding
        PROVE  tasks'[session[u].task].preview # NoValue
    <3>1. session[u].at # "idle"
      BY <2>1 DEF Deciding
    <3>2. session[u].task \in Tasks /\ tasks[session[u].task] # NoValue
      BY <3>1, SessionFacts DEF IInv
    <3> QED BY <2>1, <3>2, PreviewStays DEF AdmittedInv, PendingHasPreview
  <2>2. CASE v # w
    BY <1>0, <1>3, <2>1, <2>2 DEF Frame, SessionStep, OnlySession
  <2>3. CASE v = w /\ ~At(w, "idle")
    <3>1. session[w].at \in Deciding /\ session'[w].task = session[w].task
      BY <1>0, <1>3, <2>3 DEF Frame, SessionStep, Idle, Moves, Deciding
    <3> QED BY <2>1, <2>3, <3>1
  <2>4. CASE v = w /\ At(w, "idle")
    <3>1. Arrive(w)
      BY <1>3, <2>4, StepFrom DEF Deciding, IInv
    <3>2. session \in [Workers -> Session]
      BY DEF IInv, TypeInv, SessionsOK
    <3>3. PICK t \in Tasks : /\ Exists(t) /\ tasks[t].state = "APPROVAL_PENDING"
                             /\ session'[w].task = t
                             /\ tasks' = tasks
      <4>1. (\E t \in Tasks, u \in Users, p \in Projects, action \in RequestedAction,
                research \in BOOLEAN, mode \in Modes :
               CreateTask(w, t, u, p, action, research, mode))
              => session'[w].at \notin Deciding
        BY <3>2 DEF CreateTask, Begin, Deciding
      <4>2. (\E t \in Tasks, actor \in Users : Resume(w, t, actor))
              => session'[w].at \notin Deciding
        BY <3>2 DEF Resume, ReadForDecision, Begin, Deciding
      <4>3. PICK t \in Tasks : \E actor \in Users :
              Approve(w, t, actor) \/ Reject(w, t, actor)
        BY <1>3, <2>4, <3>1, <4>1, <4>2 DEF Arrive
      <4> QED BY <3>2, <4>3 DEF Approve, Reject, ReadForDecision, MayDecide, Begin
    <3> QED BY <2>4, <3>3 DEF AdmittedInv, PendingHasPreview
  <2> QED BY <2>2, <2>3, <2>4
<1>4. ASSUME NEW a \in approvals'
      PROVE  tasks'[a.task].preview # NoValue
  <2>1. CASE a \in approvals
    <3>1. a.task \in Tasks /\ Exists(a.task)
      BY <2>1 DEF IInv, TypeInv, TypeOK, Approval, DecisionInv, DecisionsAuthorized
    <3> QED BY <2>1, <3>1, PreviewStays DEF AdmittedInv, PendingHasPreview
  <2>2. CASE a \notin approvals
    <3>1. /\ session[w].at \in {"approve", "reject"}
          /\ StoreApproval(w) \/ StoreRejection(w)
      BY <1>0, <1>4, <2>2 DEF Frame
    <3>2. a.task = session[w].task /\ tasks' = tasks
      BY <1>4, <2>2, <3>1 DEF StoreApproval, StoreRejection, StoreDecision
    <3> QED BY <3>1, <3>2 DEF AdmittedInv, PendingHasPreview, Deciding
  <2> QED BY <2>1, <2>2
<1> QED BY <1>1, <1>2, <1>3, <1>4 DEF PendingHasPreview, ActionTask

LEMMA OpenersKept ==
  ASSUME IInv, AdmittedInv, NEW w \in Workers, Step(w)
  PROVE  OpenersSeeExecuting'
<1>0. Frame(w)
  BY NextFrame DEF IInv
<1> SUFFICES ASSUME NEW v \in Workers, session'[v].at = "open"
             PROVE  session'[v].seen = "EXECUTING"
  BY DEF OpenersSeeExecuting
<1>1. CASE v # w
  BY <1>0, <1>1 DEF Frame, SessionStep, OnlySession, AdmittedInv, OpenersSeeExecuting
<1>2. CASE v = w
  <2>1. session'[w].at # "idle" /\ At(w, "execute")
    BY <1>0, <1>2 DEF Frame, SessionStep, Idle, Moves
  <2>2. BeginExecution(w) /\ session \in [Workers -> Session]
    BY <2>1, StepFrom DEF IInv, TypeInv, SessionsOK
  <2> QED BY <1>2, <2>2 DEF BeginExecution, GotoSeeing, Session
<1> QED BY <1>1, <1>2

LEMMA InitAdmitted == Init => AdmittedInv
<1> SUFFICES ASSUME Init PROVE AdmittedInv
  OBVIOUS
<1>1. \A w \in Workers : session[w].at = "idle"
  BY DEF Init, Idle
<1>2. PendingHasPreview /\ OpenersSeeExecuting
  BY <1>1 DEF Init, PendingHasPreview, OpenersSeeExecuting, Deciding
<1> QED BY <1>2 DEF Init, AdmittedInv, ActionsControlled, ActionTask

LEMMA NextAdmitted ==
  IInv /\ AdmittedInv /\ [Next]_vars => AdmittedInv'
<1> SUFFICES ASSUME IInv, AdmittedInv, [Next]_vars PROVE AdmittedInv'
  OBVIOUS
<1>1. ASSUME NEW w \in Workers, Step(w) PROVE AdmittedInv'
  BY <1>1, NextFrame, ControlledKept, PreviewsKept, OpenersKept DEF AdmittedInv, IInv
<1>2. CASE UNCHANGED vars
  BY <1>2 DEF vars, AdmittedInv, ActionsControlled, ActionTask, PendingHasPreview,
              OpenersSeeExecuting
<1> QED BY <1>1, <1>2 DEF Next, Step

\* A task that waits for a decision, or has one, proposes a ticket; tasks with
\* an action stay in the controlled lane; who is about to open an attempt
\* believes the task to be EXECUTING.
THEOREM AdmittedInvariant == Spec => []AdmittedInv
  BY InitAdmitted, NextAdmitted, DecisionInvariant, PTL DEF Spec

LEMMA OnlyInsertRefuses ==
  ASSUME IInv, TruthInv, AdmittedInv, NEW w \in Workers, ExecutionRefused(w)
  PROVE  At(w, "insert")
<1>1. ASSUME session[w].at \in Executing
      PROVE  /\ TaskRow(w).preview # NoValue
             /\ session[w].task \in Tasks
             /\ ActionTask(session[w].task)
  <2>1. ~At(w, "idle") /\ Granted(session[w].task)
    BY <1>1 DEF Executing, IInv, DecisionInv, ExecutorsGranted
  <2>2. TaskRow(w).preview # NoValue
    BY <2>1 DEF Granted, AdmittedInv, PendingHasPreview
  <2> QED BY <2>1, <2>2, InProgress DEF IInv, ActionTask
<1>2. ~(At(w, "execute") /\ TaskRow(w).preview = NoValue)
  BY <1>1 DEF Executing
<1>3. ~(At(w, "open") /\ ~GatewayAdmits(w))
  <2> SUFFICES ASSUME At(w, "open") PROVE GatewayAdmits(w)
    OBVIOUS
  <2>1. session[w].task \in Tasks /\ ActionTask(session[w].task)
    BY <1>1 DEF Executing
  <2>2. /\ TaskRow(w).lane = "ACTION_CONTROLLED"
        /\ session[w].seen \in ApprovedStates
    BY <2>1 DEF AdmittedInv, ActionsControlled, OpenersSeeExecuting, ApprovedStates
  <2>3. ToolPermitted(TaskRow(w).lane, session[w].seen, JiraTool)
    BY <2>2 DEF ToolPermitted, AllowedTools
  <2>4. CanWrite(TaskRow(w).user, TaskRow(w).project)
    BY <2>1 DEF IInv, DecisionInv, RowsJustified, ActionTask
  <2> QED BY <2>3, <2>4 DEF GatewayAdmits
<1>4. /\ ~(At(w, "reconcile") /\ FindByKey(TaskRow(w).preview) = {})
      /\ ~(At(w, "confirm") /\ ~Confirmed(w))
  BY DEF TruthInv, WritesFound, Written, Confirmed
<1> QED BY <1>2, <1>3, <1>4 DEF ExecutionRefused

\* Once creation and approval have admitted a task, neither the preview check,
\* the tool policy, require_write, reconciliation nor the postcondition stops
\* its execution, whatever other requests did in between: of the checks that
\* raise, only the constraints of the insert can fire.
THEOREM RefusalsComeFromTheInsert == Spec => []OnlyTheInsertIsRefused
<1>1. IInv /\ TruthInv /\ AdmittedInv => OnlyTheInsertIsRefused
  BY OnlyInsertRefuses DEF OnlyTheInsertIsRefused
<1> QED BY <1>1, DecisionInvariant, TruthInvariant, AdmittedInvariant, PTL
=============================================================================
