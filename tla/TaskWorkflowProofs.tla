------------------------- MODULE TaskWorkflowProofs -------------------------
(***************************************************************************)
(* Theorems about TaskWorkflow for all sets of tasks, workers, users,      *)
(* projects and contents and for every choice of modes and faults.         *)
(*                                                                         *)
(* First the types of the tables and sessions, then the decisions.         *)
(* DecisionInv says, for every place a request can stand at, what the      *)
(* tables are bound to hold by then, although the request read its task    *)
(* long ago.                                                               *)
(***************************************************************************)
EXTENDS TaskWorkflow, FiniteSetTheorems, TLAPS

\* After the gateway has admitted the call, and once a ticket number is known.
InGateway ==
  {"open", "find", "count", "insert", "succeed", "timed_out", "reconcile",
   "reconciled", "confirm", "receipt", "complete"}
Attempted == InGateway \ {"open"}
Numbered == Attempted \ {"find", "count"}

Rows == [Tasks -> Row \cup {NoValue}]

\* Session s, over the table ts of tasks and n attempts, has a task, an actor
\* and a state it has seen, and the fields that its next step will use.
Sound(s, ts, n) ==
  /\ s \in Session
  /\ s.at = "idle" => s.task = NoValue
  /\ s.at # "idle" =>
       /\ s.task \in Tasks
       /\ ts[s.task] # NoValue
       /\ s.actor \in Users
       /\ s.seen \in TaskState
  /\ s.at = "judge" => ts[s.task].analysis # NoValue
  /\ s.at \in InGateway => ts[s.task].preview # NoValue
  /\ s.at \in Attempted => s.attempt \in 1 .. n
  /\ s.at \in Numbered => s.result # NoValue

\* Only a task with an action has a preview.
PreviewsOK(ts) ==
  \A t \in Tasks : ts[t] # NoValue /\ ts[t].preview # NoValue =>
    ts[t].action = "create_jira_ticket"

\* What an UPDATE of a row keeps.
Kept(row, new) ==
  /\ new \in Row
  /\ new.user = row.user
  /\ new.project = row.project
  /\ new.action = row.action
  /\ new.lane = row.lane
  /\ row.analysis # NoValue => new.analysis # NoValue
  /\ row.action = "create_jira_ticket" /\ row.preview # NoValue
       => new.preview # NoValue

RowsKept(ts, us) ==
  \A t \in Tasks : ts[t] # NoValue => us[t] # NoValue /\ Kept(ts[t], us[t])

SessionsOK ==
  /\ session \in [Workers -> Session]
  /\ \A w \in Workers : Sound(session[w], tasks, Len(attempts))

TypeInv ==
  TypeOK /\ SessionsOK /\ PreviewsOK(tasks) /\ IsFiniteSet(tickets)

-----------------------------------------------------------------------------
(* Lemmas about records.                                                   *)

LEMMA RowUpdate ==
  ASSUME NEW row \in Row, NEW state \in TaskState
  PROVE  LET new == [row EXCEPT !.state = state] IN
         /\ Kept(row, new)
         /\ new.state = state
         /\ new.analysis = row.analysis
         /\ new.verified = row.verified
         /\ new.preview = row.preview
         /\ new.receipt = row.receipt
         /\ new.mode = row.mode
  BY DEF Row, Kept

LEMMA SessionAt ==
  ASSUME NEW s \in Session, NEW place \in Place
  PROVE  LET r == [s EXCEPT !.at = place] IN
         /\ r \in Session
         /\ r.at = place
         /\ r.task = s.task
         /\ r.actor = s.actor
         /\ r.seen = s.seen
         /\ r.attempt = s.attempt
         /\ r.result = s.result
  BY DEF Session

LEMMA SessionWith ==
  ASSUME NEW s \in Session, NEW place \in Place, NEW result \in Receipt
  PROVE  LET r == [s EXCEPT !.at = place, !.result = result] IN
         /\ r \in Session
         /\ r.at = place
         /\ r.task = s.task
         /\ r.actor = s.actor
         /\ r.seen = s.seen
         /\ r.attempt = s.attempt
         /\ r.result = result
  BY DEF Session

LEMMA KeptSound ==
  ASSUME NEW s, NEW ts, NEW us, NEW n \in Nat, NEW m \in Nat,
         Sound(s, ts, n), PreviewsOK(ts), RowsKept(ts, us), n <= m
  PROVE  Sound(s, us, m)
<1>1. s.at \in InGateway => s.at # "idle"
  BY DEF InGateway
<1>2. s.at \in Attempted => s.at # "idle"
  BY DEF InGateway, Attempted
<1> QED BY <1>1, <1>2 DEF Sound, RowsKept, Kept, PreviewsOK

-----------------------------------------------------------------------------
(* What the helpers of the actions do to a state that satisfies TypeInv.   *)

USE DEF At, TaskRow, Exists

LEMMA StoreEffect ==
  ASSUME TypeInv, NEW w \in Workers, NEW row \in Row, NEW state \in TaskState,
         session[w].task \in Tasks, Exists(session[w].task),
         Kept(TaskRow(w), row),
         row.preview # NoValue => row.action = "create_jira_ticket",
         Store(w, row, state)
  PROVE  /\ tasks' \in Rows
         /\ RowsKept(tasks, tasks')
         /\ PreviewsOK(tasks')
         /\ tasks'[session[w].task] = [row EXCEPT !.state = state]
<1> DEFINE new == [row EXCEPT !.state = state]
<1>1. /\ new \in Row
      /\ new.preview = row.preview
      /\ new.action = row.action
      /\ Kept(TaskRow(w), new)
  BY RowUpdate DEF Kept
<1>2. tasks \in Rows
  BY DEF TypeInv, TypeOK, Rows
<1>3. \A t \in Tasks : tasks[t] # NoValue => Kept(tasks[t], tasks[t])
  BY <1>2 DEF Rows, Kept
<1>4. tasks' = [tasks EXCEPT ![session[w].task] = new]
  BY DEF Store
<1> HIDE DEF new
<1>5. tasks' \in Rows
  BY <1>1, <1>2, <1>4 DEF Rows
<1>6. RowsKept(tasks, tasks')
  BY <1>1, <1>2, <1>3, <1>4, WorkflowAssumption DEF RowsKept, Rows
<1>7. PreviewsOK(tasks')
  BY <1>1, <1>2, <1>4 DEF PreviewsOK, Rows, TypeInv
<1> QED BY <1>2, <1>4, <1>5, <1>6, <1>7 DEF Rows, new

LEMMA SameTables ==
  ASSUME TypeInv, tasks' = tasks
  PROVE  RowsKept(tasks, tasks')
  BY DEF TypeInv, TypeOK, RowsKept, Kept

\* A step that replaces the session of w by s.
LEMMA SessionEffect ==
  ASSUME TypeInv, NEW w \in Workers, NEW s,
         session' = [session EXCEPT ![w] = s],
         attempts' \in Seq(Attempt), Len(attempts) <= Len(attempts'),
         RowsKept(tasks, tasks'),
         Sound(s, tasks', Len(attempts'))
  PROVE  SessionsOK'
<1>1. Len(attempts) \in Nat /\ Len(attempts') \in Nat
  BY DEF TypeInv, TypeOK
<1>2. session' \in [Workers -> Session]
  BY DEF TypeInv, SessionsOK, Sound
<1>3. ASSUME NEW v \in Workers
      PROVE  Sound(session'[v], tasks', Len(attempts'))
  <2>1. CASE v = w
    BY <2>1 DEF TypeInv, SessionsOK
  <2>2. CASE v # w
    <3>1. session'[v] = session[v]
      BY <2>2 DEF TypeInv, SessionsOK
    <3>2. Sound(session[v], tasks, Len(attempts))
      BY DEF TypeInv, SessionsOK
    <3> QED BY <1>1, <3>1, <3>2, KeptSound DEF TypeInv
  <2> QED BY <2>1, <2>2
<1> QED BY <1>2, <1>3 DEF SessionsOK

LEMMA IdleSound ==
  \A ts, n : Sound(Idle, ts, n)
<1>1. Idle \in Session
  BY DEF Idle, Session, Place
<1> QED BY <1>1 DEF Sound, Idle, InGateway, Attempted, Numbered

\* A request that ends, whatever it wrote.
LEMMA FinishEffect ==
  ASSUME TypeInv, NEW w \in Workers, Finish(w),
         attempts' \in Seq(Attempt), Len(attempts) <= Len(attempts'),
         RowsKept(tasks, tasks')
  PROVE  SessionsOK'
  BY IdleSound, SessionEffect DEF Finish

\* The session of a request in progress.
LEMMA InProgress ==
  ASSUME TypeInv, NEW w \in Workers, ~At(w, "idle")
  PROVE  /\ session[w] \in Session
         /\ session[w].task \in Tasks
         /\ Exists(session[w].task)
         /\ TaskRow(w) \in Row
         /\ Kept(TaskRow(w), TaskRow(w))
         /\ TaskRow(w).state \in TaskState
         /\ session[w].actor \in Users
         /\ session[w].seen \in TaskState
         /\ TaskRow(w).preview # NoValue
              => TaskRow(w).action = "create_jira_ticket"
<1>1. Sound(session[w], tasks, Len(attempts)) /\ session[w] \in Session
  BY DEF TypeInv, SessionsOK
<1>2. session[w].task \in Tasks /\ TaskRow(w) # NoValue
  BY <1>1 DEF Sound
<1>3. TaskRow(w) \in Row
  BY <1>2 DEF TypeInv, TypeOK
<1>4. Kept(TaskRow(w), TaskRow(w)) /\ TaskRow(w).state \in TaskState
  BY <1>3 DEF Kept, Row
<1> QED BY <1>1, <1>2, <1>3, <1>4 DEF Sound, TypeInv, PreviewsOK

\* A creation step that stores `state` in a row it otherwise keeps.
LEMMA TransitionType ==
  ASSUME TypeInv, NEW w \in Workers, ~At(w, "idle"), NEW state \in TaskState,
         Store(w, TaskRow(w), state)
  PROVE  /\ tasks' \in Rows
         /\ RowsKept(tasks, tasks')
         /\ PreviewsOK(tasks')
         /\ tasks'[session[w].task] = [TaskRow(w) EXCEPT !.state = state]
  BY InProgress, StoreEffect


\* A request that goes on with session r.
LEMMA ContinueType ==
  ASSUME TypeInv, NEW w \in Workers, ~At(w, "idle"), NEW r \in Session,
         r.at # "idle",
         r.task = session[w].task, r.actor = session[w].actor,
         r.seen \in TaskState,
         session' = [session EXCEPT ![w] = r],
         attempts' \in Seq(Attempt), Len(attempts) <= Len(attempts'),
         RowsKept(tasks, tasks'),
         r.at = "judge" => tasks'[r.task].analysis # NoValue,
         r.at \in InGateway => tasks'[r.task].preview # NoValue,
         r.at \in Attempted => r.attempt \in 1 .. Len(attempts'),
         r.at \in Numbered => r.result # NoValue
  PROVE  SessionsOK'
<1>1. Sound(session[w], tasks', Len(attempts'))
  <2>1. Sound(session[w], tasks, Len(attempts))
    BY DEF TypeInv, SessionsOK
  <2>2. PreviewsOK(tasks) /\ attempts \in Seq(Attempt)
    BY DEF TypeInv, TypeOK
  <2>3. Len(attempts) \in Nat /\ Len(attempts') \in Nat
    BY <2>2
  <2> QED BY <2>1, <2>2, <2>3, KeptSound
<1>2. Sound(r, tasks', Len(attempts'))
  BY <1>1 DEF Sound
<1> QED BY <1>2, SessionEffect

\* Goto and GotoSeeing between two places of which the second needs nothing
\* that the first did not have.
LEMMA GotoType ==
  ASSUME TypeInv, NEW w \in Workers, ~At(w, "idle"),
         NEW place \in Place, NEW state \in TaskState,
         Goto(w, place) \/ GotoSeeing(w, place, state),
         attempts' \in Seq(Attempt), Len(attempts) <= Len(attempts'),
         RowsKept(tasks, tasks'),
         place # "idle", place # "judge",
         place \in InGateway =>
           \/ session[w].at \in InGateway
           \/ TaskRow(w).preview # NoValue,
         place \in Attempted => session[w].at \in Attempted,
         place \in Numbered => session[w].at \in Numbered
  PROVE  SessionsOK'
<1>1. PICK r \in Session :
        /\ session' = [session EXCEPT ![w] = r]
        /\ r.at = place
        /\ r.task = session[w].task
        /\ r.actor = session[w].actor
        /\ r.seen \in TaskState
        /\ r.attempt = session[w].attempt
        /\ r.result = session[w].result
  <2>1. CASE Goto(w, place)
    <3> DEFINE q == [session[w] EXCEPT !.at = place]
    <3>1. session' = [session EXCEPT ![w] = q]
      BY <2>1 DEF Goto
    <3>2. session[w] \in Session
      BY InProgress
    <3>3. /\ q \in Session
          /\ q.at = place
          /\ q.task = session[w].task
          /\ q.actor = session[w].actor
          /\ q.seen = session[w].seen
          /\ q.attempt = session[w].attempt
          /\ q.result = session[w].result
      BY <3>2, SessionAt
    <3> HIDE DEF q
    <3> QED BY <3>1, <3>3, InProgress
  <2>2. CASE GotoSeeing(w, place, state)
    <3> DEFINE q == [session[w] EXCEPT !.at = place, !.seen = state]
    <3>1. session' = [session EXCEPT ![w] = q]
      BY <2>2 DEF GotoSeeing
    <3>2. session[w] \in Session
      BY InProgress
    <3>3. /\ q \in Session
          /\ q.at = place
          /\ q.task = session[w].task
          /\ q.actor = session[w].actor
          /\ q.seen = state
          /\ q.attempt = session[w].attempt
          /\ q.result = session[w].result
      BY <3>2 DEF Session
    <3> HIDE DEF q
    <3> QED BY <3>1, <3>3, InProgress
  <2> QED BY <2>1, <2>2
<1>2. Sound(session[w], tasks, Len(attempts))
  BY DEF TypeInv, SessionsOK
<1>3. place \in InGateway => tasks'[session[w].task].preview # NoValue
  BY <1>2, InProgress DEF Sound, RowsKept, Kept, TypeInv, PreviewsOK
<1>4. place \in Attempted => session[w].attempt \in 1 .. Len(attempts')
  BY <1>2 DEF Sound, TypeInv, TypeOK
<1>5. place \in Numbered => session[w].result # NoValue
  BY <1>2 DEF Sound
<1> QED BY <1>1, <1>3, <1>4, <1>5, ContinueType

-----------------------------------------------------------------------------
(* TypeInv is inductive: one lemma for each kind of step.                  *)

\* The tables that a step leaves alone stay typed.
LEMMA TypeFrame ==
  ASSUME TypeInv, tasks' = tasks, attempts' = attempts
  PROVE  /\ tasks' \in Rows
         /\ RowsKept(tasks, tasks')
         /\ PreviewsOK(tasks')
         /\ attempts' \in Seq(Attempt)
         /\ Len(attempts) <= Len(attempts')
  BY SameTables DEF TypeInv, TypeOK, Rows

LEMMA AttemptsFrame ==
  ASSUME TypeInv, attempts' = attempts
  PROVE  attempts' \in Seq(Attempt) /\ Len(attempts) <= Len(attempts')
  BY DEF TypeInv, TypeOK

\* A step that ends the request, or goes on as GotoType allows, after a
\* transition or after no update of the row.
LEMMA TypeStep ==
  ASSUME TypeInv,
         tasks' \in Rows, PreviewsOK(tasks'),
         attempts' \in Seq(Attempt), SessionsOK',
         approvals' = approvals, tickets' = tickets
  PROVE  TypeInv'
  BY DEF TypeInv, TypeOK, Rows, SessionsOK

LEMMA TypeCreateContract ==
  ASSUME TypeInv, NEW w \in Workers, CreateContract(w)
  PROVE  TypeInv'
<1>1. ~At(w, "idle") /\ Store(w, TaskRow(w), "CONTRACT_CREATED")
  BY DEF CreateContract, Transition, Advance
<1>2. tasks' \in Rows /\ RowsKept(tasks, tasks') /\ PreviewsOK(tasks')
  BY <1>1, TransitionType DEF TaskState
<1>3. attempts' \in Seq(Attempt) /\ Len(attempts) <= Len(attempts')
  BY AttemptsFrame DEF CreateContract, Advance
<1>4. SessionsOK'
  BY <1>1, <1>2, <1>3, GotoType
  DEF CreateContract, Advance, Place, Creating, Deciding, Executing, InGateway, Attempted, Numbered, TaskState
<1> QED BY <1>2, <1>3, <1>4, TypeStep DEF CreateContract, Advance

LEMMA TypeGatherDocuments ==
  ASSUME TypeInv, NEW w \in Workers, GatherDocuments(w)
  PROVE  TypeInv'
<1>1. ~At(w, "idle") /\ Store(w, TaskRow(w), "GATHERING")
  BY DEF GatherDocuments, Transition, Advance
<1>2. tasks' \in Rows /\ RowsKept(tasks, tasks') /\ PreviewsOK(tasks')
  BY <1>1, TransitionType DEF TaskState
<1>3. attempts' \in Seq(Attempt) /\ Len(attempts) <= Len(attempts')
  BY AttemptsFrame DEF GatherDocuments, Advance
<1>4. SessionsOK'
  BY <1>1, <1>2, <1>3, GotoType
  DEF GatherDocuments, Advance, Place, Creating, Deciding, Executing, InGateway, Attempted, Numbered, TaskState
<1> QED BY <1>2, <1>3, <1>4, TypeStep DEF GatherDocuments, Advance

LEMMA TypeStartAnalysis ==
  ASSUME TypeInv, NEW w \in Workers, StartAnalysis(w)
  PROVE  TypeInv'
<1>1. ~At(w, "idle") /\ Store(w, TaskRow(w), "VERIFYING")
  BY DEF StartAnalysis, Transition, Advance
<1>2. tasks' \in Rows /\ RowsKept(tasks, tasks') /\ PreviewsOK(tasks')
  BY <1>1, TransitionType DEF TaskState
<1>3. attempts' \in Seq(Attempt) /\ Len(attempts) <= Len(attempts')
  BY AttemptsFrame DEF StartAnalysis, Advance
<1>4. SessionsOK'
  BY <1>1, <1>2, <1>3, GotoType
  DEF StartAnalysis, Advance, Place, Creating, Deciding, Executing, InGateway, Attempted, Numbered, TaskState
<1> QED BY <1>2, <1>3, <1>4, TypeStep DEF StartAnalysis, Advance

LEMMA TypeMarkApproved ==
  ASSUME TypeInv, NEW w \in Workers, MarkApproved(w)
  PROVE  TypeInv'
<1>1. ~At(w, "idle") /\ Store(w, TaskRow(w), "APPROVED")
  BY DEF MarkApproved, Transition, AfterApproval
<1>2. tasks' \in Rows /\ RowsKept(tasks, tasks') /\ PreviewsOK(tasks')
  BY <1>1, TransitionType DEF TaskState
<1>3. attempts' \in Seq(Attempt) /\ Len(attempts) <= Len(attempts')
  BY AttemptsFrame DEF MarkApproved, AfterApproval
<1>4. SessionsOK'
  BY <1>1, <1>2, <1>3, GotoType
  DEF MarkApproved, AfterApproval, Place, Creating, Deciding, Executing, InGateway, Attempted, Numbered, TaskState
<1> QED BY <1>2, <1>3, <1>4, TypeStep DEF MarkApproved, AfterApproval

LEMMA TypeBeginExecution ==
  ASSUME TypeInv, NEW w \in Workers, BeginExecution(w)
  PROVE  TypeInv'
<1>1. ~At(w, "idle") /\ Store(w, TaskRow(w), "EXECUTING")
  BY DEF BeginExecution, Transition
<1>2. tasks' \in Rows /\ RowsKept(tasks, tasks') /\ PreviewsOK(tasks')
  BY <1>1, TransitionType DEF TaskState
<1>3. attempts' \in Seq(Attempt) /\ Len(attempts) <= Len(attempts')
  BY AttemptsFrame DEF BeginExecution
<1>4. SessionsOK'
  BY <1>1, <1>2, <1>3, GotoType
  DEF BeginExecution, Place, Creating, Deciding, Executing, InGateway, Attempted, Numbered, TaskState
<1> QED BY <1>2, <1>3, <1>4, TypeStep DEF BeginExecution

LEMMA TypeRejectAnalysis ==
  ASSUME TypeInv, NEW w \in Workers, RejectAnalysis(w)
  PROVE  TypeInv'
<1>1. ~At(w, "idle") /\ Store(w, TaskRow(w), "FAILED")
  BY DEF RejectAnalysis, Transition
<1>2. tasks' \in Rows /\ RowsKept(tasks, tasks') /\ PreviewsOK(tasks')
  BY <1>1, TransitionType DEF TaskState, Conclusion
<1>3. attempts' \in Seq(Attempt) /\ Len(attempts) <= Len(attempts')
  BY AttemptsFrame DEF RejectAnalysis
<1>4. SessionsOK'
  BY <1>2, <1>3, FinishEffect DEF RejectAnalysis
<1> QED BY <1>2, <1>3, <1>4, TypeStep DEF RejectAnalysis

LEMMA TypeConcludeCreation ==
  ASSUME TypeInv, NEW w \in Workers, ConcludeCreation(w)
  PROVE  TypeInv'
<1>1. ~At(w, "idle") /\ Store(w, TaskRow(w), Conclusion(TaskRow(w)))
  BY DEF ConcludeCreation, Transition
<1>2. tasks' \in Rows /\ RowsKept(tasks, tasks') /\ PreviewsOK(tasks')
  BY <1>1, TransitionType DEF TaskState, Conclusion
<1>3. attempts' \in Seq(Attempt) /\ Len(attempts) <= Len(attempts')
  BY AttemptsFrame DEF ConcludeCreation
<1>4. SessionsOK'
  BY <1>2, <1>3, FinishEffect DEF ConcludeCreation
<1> QED BY <1>2, <1>3, <1>4, TypeStep DEF ConcludeCreation

LEMMA TypeMarkRejected ==
  ASSUME TypeInv, NEW w \in Workers, MarkRejected(w)
  PROVE  TypeInv'
<1>1. ~At(w, "idle") /\ Store(w, TaskRow(w), "REJECTED")
  BY DEF MarkRejected, Transition
<1>2. tasks' \in Rows /\ RowsKept(tasks, tasks') /\ PreviewsOK(tasks')
  BY <1>1, TransitionType DEF TaskState, Conclusion
<1>3. attempts' \in Seq(Attempt) /\ Len(attempts) <= Len(attempts')
  BY AttemptsFrame DEF MarkRejected
<1>4. SessionsOK'
  BY <1>2, <1>3, FinishEffect DEF MarkRejected
<1> QED BY <1>2, <1>3, <1>4, TypeStep DEF MarkRejected

LEMMA TypeCompleteAction ==
  ASSUME TypeInv, NEW w \in Workers, CompleteAction(w)
  PROVE  TypeInv'
<1>1. ~At(w, "idle") /\ Store(w, TaskRow(w), "COMPLETED")
  BY DEF CompleteAction, Transition
<1>2. tasks' \in Rows /\ RowsKept(tasks, tasks') /\ PreviewsOK(tasks')
  BY <1>1, TransitionType DEF TaskState, Conclusion
<1>3. attempts' \in Seq(Attempt) /\ Len(attempts) <= Len(attempts')
  BY AttemptsFrame DEF CompleteAction
<1>4. SessionsOK'
  BY <1>2, <1>3, FinishEffect DEF CompleteAction
<1> QED BY <1>2, <1>3, <1>4, TypeStep DEF CompleteAction

LEMMA TypeCreationFails ==
  ASSUME TypeInv, NEW w \in Workers, CreationFails(w)
  PROVE  TypeInv'
<1>1. ~At(w, "idle") /\ Store(w, TaskRow(w), "FAILED")
  BY DEF CreationFails, Store, Creating
<1>2. tasks' \in Rows /\ RowsKept(tasks, tasks') /\ PreviewsOK(tasks')
  BY <1>1, TransitionType DEF TaskState, Conclusion
<1>3. attempts' \in Seq(Attempt) /\ Len(attempts) <= Len(attempts')
  BY AttemptsFrame DEF CreationFails
<1>4. SessionsOK'
  BY <1>2, <1>3, FinishEffect DEF CreationFails
<1> QED BY <1>2, <1>3, <1>4, TypeStep DEF CreationFails

LEMMA TypeRetrieveDocuments ==
  ASSUME TypeInv, NEW w \in Workers, NEW flagged \in BOOLEAN,
         RetrieveDocuments(w, flagged)
  PROVE  TypeInv'
<1>1. ~At(w, "idle") /\ tasks' = tasks /\ attempts' = attempts
  BY DEF RetrieveDocuments
<1>2. SessionsOK'
  BY <1>1, TypeFrame, GotoType
  DEF RetrieveDocuments, Place, Creating, Deciding, Executing, InGateway, Attempted, Numbered, TaskState
<1> QED BY <1>1, <1>2, TypeFrame, TypeStep DEF RetrieveDocuments

LEMMA TypeLogResume ==
  ASSUME TypeInv, NEW w \in Workers, LogResume(w)
  PROVE  TypeInv'
<1>1. ~At(w, "idle") /\ tasks' = tasks /\ attempts' = attempts
  BY DEF LogResume
<1>2. SessionsOK'
  BY <1>1, TypeFrame, GotoType
  DEF LogResume, Place, Creating, Deciding, Executing, InGateway, Attempted, Numbered, TaskState
<1> QED BY <1>1, <1>2, TypeFrame, TypeStep DEF LogResume

LEMMA TypeMissTicket ==
  ASSUME TypeInv, NEW w \in Workers, MissTicket(w)
  PROVE  TypeInv'
<1>1. ~At(w, "idle") /\ tasks' = tasks /\ attempts' = attempts
  BY DEF MissTicket
<1>2. SessionsOK'
  BY <1>1, TypeFrame, GotoType
  DEF MissTicket, Place, Creating, Deciding, Executing, InGateway, Attempted, Numbered, TaskState
<1> QED BY <1>1, <1>2, TypeFrame, TypeStep DEF MissTicket

LEMMA TypeConfirmTicket ==
  ASSUME TypeInv, NEW w \in Workers, ConfirmTicket(w)
  PROVE  TypeInv'
<1>1. ~At(w, "idle") /\ tasks' = tasks /\ attempts' = attempts
  BY DEF ConfirmTicket
<1>2. SessionsOK'
  BY <1>1, TypeFrame, GotoType
  DEF ConfirmTicket, Place, Creating, Deciding, Executing, InGateway, Attempted, Numbered, TaskState
<1> QED BY <1>1, <1>2, TypeFrame, TypeStep DEF ConfirmTicket

LEMMA TypeDecisionConflict ==
  ASSUME TypeInv, NEW w \in Workers, DecisionConflict(w)
  PROVE  TypeInv'
<1>1. tasks' = tasks /\ attempts' = attempts
  BY DEF DecisionConflict
<1>2. SessionsOK'
  BY <1>1, TypeFrame, FinishEffect DEF DecisionConflict
<1> QED BY <1>1, <1>2, TypeFrame, TypeStep DEF DecisionConflict

LEMMA TypePauseAfterApproval ==
  ASSUME TypeInv, NEW w \in Workers, PauseAfterApproval(w)
  PROVE  TypeInv'
<1>1. tasks' = tasks /\ attempts' = attempts
  BY DEF PauseAfterApproval
<1>2. SessionsOK'
  BY <1>1, TypeFrame, FinishEffect DEF PauseAfterApproval
<1> QED BY <1>1, <1>2, TypeFrame, TypeStep DEF PauseAfterApproval

LEMMA TypeRequestDies ==
  ASSUME TypeInv, NEW w \in Workers, RequestDies(w)
  PROVE  TypeInv'
<1>1. tasks' = tasks /\ attempts' = attempts
  BY DEF RequestDies
<1>2. SessionsOK'
  BY <1>1, TypeFrame, FinishEffect DEF RequestDies
<1> QED BY <1>1, <1>2, TypeFrame, TypeStep DEF RequestDies

LEMMA TypeReadForDecision ==
  ASSUME TypeInv, NEW w \in Workers, NEW t \in Tasks, NEW actor \in Users,
         NEW state \in TaskState, NEW place \in {"approve", "reject", "resume"},
         ReadForDecision(w, t, actor, state, place)
  PROVE  TypeInv'
<1> DEFINE r == [at |-> place, task |-> t, actor |-> actor, seen |-> state,
                 attempt |-> 0, result |-> NoValue]
<1>1. tasks' = tasks /\ attempts' = attempts /\ session' = [session EXCEPT ![w] = r]
  BY DEF ReadForDecision, Begin
<1>2. r \in Session
  BY DEF Session, Place, Deciding, Executing
<1>3. Sound(r, tasks, Len(attempts))
  BY <1>2 DEF ReadForDecision, MayDecide, Sound, InGateway, Attempted, Numbered
<1> HIDE DEF r
<1>4. SessionsOK'
  BY <1>1, <1>3, TypeFrame, SessionEffect
<1> QED BY <1>1, <1>4, TypeFrame, TypeStep DEF ReadForDecision

LEMMA TypeStoreDecision ==
  ASSUME TypeInv, NEW w \in Workers,
         NEW place \in {"approve", "reject"},
         NEW decision \in {"approved", "rejected"}, NEW type,
         NEW next \in {"mark_approved", "mark_rejected"},
         StoreDecision(w, place, decision, type, next)
  PROVE  TypeInv'
<1>1. ~At(w, "idle") /\ tasks' = tasks /\ attempts' = attempts /\ Goto(w, next)
  BY DEF StoreDecision
<1>2. SessionsOK'
  <2>1. next \in Place /\ next \notin InGateway /\ next # "idle" /\ next # "judge"
    BY DEF Place, Deciding, InGateway
  <2>2. "RECEIVED" \in TaskState
    BY DEF TaskState
  <2> QED BY <1>1, <2>1, <2>2, TypeFrame, GotoType DEF Attempted, Numbered
<1>3. approvals' \subseteq Approval
  BY <1>1, InProgress DEF StoreDecision, Approval, TypeInv, TypeOK
<1> QED BY <1>1, <1>2, <1>3, TypeFrame DEF TypeInv, TypeOK, Rows, SessionsOK, StoreDecision

LEMMA TypeCreateTask ==
  ASSUME TypeInv, NEW w \in Workers, NEW t \in Tasks, NEW u \in Users,
         NEW p \in Projects, NEW action \in RequestedAction,
         NEW research \in BOOLEAN, NEW mode \in Modes,
         CreateTask(w, t, u, p, action, research, mode)
  PROVE  TypeInv'
<1> DEFINE lane == ChooseLane(research, action)
           row == NewRow(u, p, action, lane, mode)
           r == [at |-> "contract", task |-> t, actor |-> u, seen |-> "RECEIVED",
                 attempt |-> 0, result |-> NoValue]
<1>1. row \in Row /\ row.preview = NoValue
  <2>1. lane \in RiskLane
    BY DEF ChooseLane, RiskLane
  <2> QED BY <2>1 DEF NewRow, Row, TaskState
<1>2. /\ tasks[t] = NoValue
      /\ tasks' = [tasks EXCEPT ![t] = row]
      /\ session' = [session EXCEPT ![w] = r]
      /\ attempts' = attempts
  BY DEF CreateTask, Begin
<1>3. r \in Session
  BY DEF Session, Place, Creating, TaskState
<1> HIDE DEF row, lane
<1>4. tasks' \in Rows /\ PreviewsOK(tasks')
  BY <1>1, <1>2 DEF TypeInv, TypeOK, Rows, PreviewsOK
<1>5. RowsKept(tasks, tasks')
  <2>1. RowsKept(tasks, tasks)
    BY SameTables DEF TypeInv, TypeOK, RowsKept, Kept
  <2> QED BY <1>2, <2>1 DEF RowsKept, TypeInv, TypeOK
<1>6. Sound(r, tasks', Len(attempts'))
  BY <1>1, <1>2, <1>3, WorkflowAssumption
  DEF Sound, InGateway, Attempted, Numbered, TaskState, TypeInv, TypeOK
<1> HIDE DEF r
<1>7. SessionsOK'
  BY <1>2, <1>5, <1>6, AttemptsFrame, SessionEffect
<1> QED BY <1>2, <1>4, <1>7, AttemptsFrame, TypeStep DEF CreateTask

LEMMA TypeAnalyze ==
  ASSUME TypeInv, NEW w \in Workers, NEW content \in Contents,
         NEW verdict \in {"passed", "failed"}, Analyze(w, content, verdict)
  PROVE  TypeInv'
<1> DEFINE row == [TaskRow(w) EXCEPT !.analysis = content, !.verified = verdict]
           r == [session[w] EXCEPT !.at = "judge"]
<1>1. ~At(w, "idle") /\ attempts' = attempts
  BY DEF Analyze
<1>2. /\ row \in Row
      /\ Kept(TaskRow(w), row)
      /\ row.preview = TaskRow(w).preview
      /\ row.action = TaskRow(w).action
      /\ row.analysis # NoValue
  BY <1>1, InProgress, WorkflowAssumption DEF Row, Kept
<1>3. Store(w, row, TaskRow(w).state)
  BY DEF Analyze
<1> HIDE DEF row
<1>4. /\ tasks' \in Rows
      /\ RowsKept(tasks, tasks')
      /\ PreviewsOK(tasks')
      /\ tasks'[session[w].task] = [row EXCEPT !.state = TaskRow(w).state]
  BY <1>1, <1>2, <1>3, InProgress, StoreEffect
<1>5. tasks'[session[w].task].analysis # NoValue
  BY <1>1, <1>2, <1>4, InProgress, RowUpdate
<1>6. SessionsOK'
  <2>1. session' = [session EXCEPT ![w] = r]
    BY DEF Analyze, Goto
  <2>2. "judge" \in Place
    BY DEF Place, Creating
  <2>3. /\ r \in Session
        /\ r.at = "judge"
        /\ r.task = session[w].task
        /\ r.actor = session[w].actor
        /\ r.seen \in TaskState
    BY <1>1, <2>2, InProgress, SessionAt
  <2> HIDE DEF r
  <2>4. r.at \notin InGateway /\ r.at \notin Attempted /\ r.at \notin Numbered
    BY <2>3 DEF InGateway, Attempted, Numbered
  <2> QED BY <1>1, <1>4, <1>5, <2>1, <2>3, <2>4, AttemptsFrame, ContinueType
<1> QED BY <1>1, <1>4, <1>6, AttemptsFrame, TypeStep DEF Analyze

LEMMA TypeProposalReady ==
  ASSUME TypeInv, NEW w \in Workers, ProposalReady(w)
  PROVE  TypeInv'
<1> DEFINE row == [TaskRow(w) EXCEPT !.preview = PreviewOf(TaskRow(w))]
<1>1. ~At(w, "idle") /\ attempts' = attempts /\ TaskRow(w) \in Row
  BY InProgress DEF ProposalReady
<1>2. TaskRow(w).analysis \in Contents
  BY <1>1 DEF ProposalReady, TypeInv, SessionsOK, Sound, Row
<1>3. /\ PreviewOf(TaskRow(w)) \in Key \cup {NoValue}
      /\ PreviewOf(TaskRow(w)) # NoValue
           <=> TaskRow(w).action = "create_jira_ticket"
  BY <1>1, <1>2, WorkflowAssumption DEF PreviewOf, Key, Row
<1>4. /\ row \in Row
      /\ Kept(TaskRow(w), row)
      /\ row.preview # NoValue => row.action = "create_jira_ticket"
  BY <1>1, <1>3 DEF Row, Kept
<1>5. Store(w, row, "PROPOSAL_READY")
  BY DEF ProposalReady, Transition
<1> HIDE DEF row
<1>6. tasks' \in Rows /\ RowsKept(tasks, tasks') /\ PreviewsOK(tasks')
  BY <1>1, <1>4, <1>5, InProgress, StoreEffect DEF TaskState
<1>7. SessionsOK'
  BY <1>1, <1>6, AttemptsFrame, GotoType
  DEF ProposalReady, Place, Creating, InGateway, Attempted, Numbered, TaskState
<1> QED BY <1>1, <1>6, <1>7, AttemptsFrame, TypeStep DEF ProposalReady

AttemptStatus ==
  {"STARTED", "SUCCEEDED", "TIMEOUT_UNKNOWN", "RECONCILED", "FAILED_UNCONFIRMED"}

LEMMA SetAttemptType ==
  ASSUME TypeInv, NEW w \in Workers, session[w].at \in Attempted,
         NEW status \in AttemptStatus, SetAttempt(w, status)
  PROVE  attempts' \in Seq(Attempt) /\ Len(attempts) = Len(attempts')
<1>1. session[w].attempt \in 1 .. Len(attempts)
  BY DEF TypeInv, SessionsOK, Sound
<1>2. attempts \in Seq(Attempt)
  BY DEF TypeInv, TypeOK
<1>3. [attempts[session[w].attempt] EXCEPT !.status = status] \in Attempt
  <2>1. attempts[session[w].attempt] \in Attempt
    BY <1>1, <1>2
  <2> QED BY <2>1 DEF Attempt, AttemptStatus
<1>4. attempts' = [attempts EXCEPT ![session[w].attempt] =
                     [attempts[session[w].attempt] EXCEPT !.status = status]]
  BY DEF SetAttempt
<1> QED BY <1>1, <1>2, <1>3, <1>4

LEMMA TypeOpenAttempt ==
  ASSUME TypeInv, NEW w \in Workers, OpenAttempt(w)
  PROVE  TypeInv'
<1> DEFINE r == [session[w] EXCEPT !.at = "find", !.attempt = Len(attempts) + 1]
           a == NewAttempt(session[w].task, TaskRow(w).preview)
<1>1. ~At(w, "idle") /\ session[w].at \in InGateway /\ tasks' = tasks
  BY DEF OpenAttempt, InGateway
<1>2. /\ RowsKept(tasks, tasks')
      /\ TaskRow(w).preview # NoValue
  BY <1>1, SameTables DEF TypeInv, SessionsOK, Sound
<1>3. attempts \in Seq(Attempt) /\ attempts' = Append(attempts, a)
  BY DEF OpenAttempt, TypeInv, TypeOK
<1>4. a \in Attempt
  BY <1>1, <1>2, InProgress DEF NewAttempt, Attempt, Row
<1> HIDE DEF a
<1>5. attempts' \in Seq(Attempt) /\ Len(attempts') = Len(attempts) + 1
  BY <1>3, <1>4
<1>6. session' = [session EXCEPT ![w] = r]
  BY DEF OpenAttempt
<1>7. Len(attempts) \in Nat /\ "find" \in Place
  BY <1>3 DEF Place, Executing
<1>8. /\ r \in Session
      /\ r.at = "find"
      /\ r.task = session[w].task
      /\ r.actor = session[w].actor
      /\ r.seen = session[w].seen
      /\ r.attempt = Len(attempts) + 1
  <2> DEFINE n == Len(attempts) + 1
             q == [session[w] EXCEPT !.at = "find", !.attempt = n]
  <2>1. session[w] \in Session
    BY <1>1, InProgress
  <2>2. n \in Nat
    BY <1>7
  <2> HIDE DEF n
  <2>3. /\ q \in Session
        /\ q.at = "find"
        /\ q.task = session[w].task
        /\ q.actor = session[w].actor
        /\ q.seen = session[w].seen
        /\ q.attempt = n
    BY <1>7, <2>1, <2>2 DEF Session
  <2> QED BY <2>3 DEF n
<1> HIDE DEF r
<1>9. SessionsOK'
  <2>1. r.at # "judge" /\ r.at # "idle" /\ r.at \notin Numbered
    BY <1>8 DEF Numbered
  <2>2. r.attempt \in 1 .. Len(attempts')
    BY <1>5, <1>7, <1>8
  <2>3. tasks'[r.task].preview # NoValue /\ r.seen \in TaskState
    BY <1>1, <1>2, <1>8, InProgress
  <2>4. /\ Len(attempts) <= Len(attempts')
        /\ ~At(w, "idle")
        /\ r \in Session
        /\ r.task = session[w].task
        /\ r.actor = session[w].actor
    BY <1>1, <1>5, <1>7, <1>8
  <2> QED BY <1>2, <1>5, <1>6, <2>1, <2>2, <2>3, <2>4, ContinueType
<1>10. tasks' \in Rows /\ PreviewsOK(tasks')
  BY <1>1 DEF TypeInv, TypeOK, Rows
<1> QED BY <1>5, <1>9, <1>10, TypeStep DEF OpenAttempt

\* A step of the gateway that only stores a result in its session.
LEMMA TypeGotoWith ==
  ASSUME TypeInv, NEW w \in Workers, session[w].at \in Attempted,
         NEW place \in Numbered, NEW result \in Receipt,
         GotoWith(w, place, result),
         UNCHANGED <<tasks, approvals, attempts, audit, tickets>>
  PROVE  TypeInv'
<1> DEFINE r == [session[w] EXCEPT !.at = place, !.result = result]
<1>1. ~At(w, "idle") /\ session[w].at \in InGateway
  BY DEF Attempted, InGateway
<1>2. place \in Place /\ place # "judge" /\ place # "idle"
  BY DEF Numbered, Attempted, InGateway, Place, Executing
<1>3. session' = [session EXCEPT ![w] = r]
  BY DEF GotoWith
<1>4. /\ r \in Session
      /\ r.at = place
      /\ r.task = session[w].task
      /\ r.actor = session[w].actor
      /\ r.seen = session[w].seen
      /\ r.attempt = session[w].attempt
      /\ r.result = result
  <2>1. session[w] \in Session
    BY <1>1, InProgress
  <2> QED BY <1>2, <2>1, SessionWith
<1> HIDE DEF r
<1>5. /\ session[w].attempt \in 1 .. Len(attempts')
      /\ tasks'[session[w].task].preview # NoValue
  BY <1>1 DEF TypeInv, SessionsOK, Sound
<1>6. r.result # NoValue /\ r.seen \in TaskState
  BY <1>1, <1>4, InProgress, WorkflowAssumption
<1>7. SessionsOK'
  BY <1>1, <1>2, <1>3, <1>4, <1>5, <1>6, TypeFrame, ContinueType
<1> QED BY <1>7, TypeFrame, TypeStep

LEMMA TypeFindTicket ==
  ASSUME TypeInv, NEW w \in Workers, FindTicket(w)
  PROVE  TypeInv'
<1>1. PICK x \in FindByKey(TaskRow(w).preview) : GotoWith(w, "succeed", Replay(x))
  BY DEF FindTicket
<1>2. Replay(x) \in Receipt
  BY DEF FindByKey, TypeInv, TypeOK, Replay, Found, Receipt
<1>3. session[w].at \in Attempted /\ "succeed" \in Numbered
  BY DEF FindTicket, Attempted, InGateway, Numbered
<1> QED BY <1>1, <1>2, <1>3, TypeGotoWith DEF FindTicket

LEMMA TypeFindAfterTimeout ==
  ASSUME TypeInv, NEW w \in Workers, FindAfterTimeout(w)
  PROVE  TypeInv'
<1>1. PICK x \in FindByKey(TaskRow(w).preview) :
        GotoWith(w, "reconciled", Found(x.num, TRUE, TRUE))
  BY DEF FindAfterTimeout
<1>2. Found(x.num, TRUE, TRUE) \in Receipt
  BY DEF FindByKey, TypeInv, TypeOK, Found, Receipt
<1>3. session[w].at \in Attempted /\ "reconciled" \in Numbered
  BY DEF FindAfterTimeout, Attempted, InGateway, Numbered
<1> QED BY <1>1, <1>2, <1>3, TypeGotoWith DEF FindAfterTimeout

LEMMA TypeCountTickets ==
  ASSUME TypeInv, NEW w \in Workers, CountTickets(w)
  PROVE  TypeInv'
<1>1. Cardinality(tickets) \in Nat
  BY FS_CardinalityType DEF TypeInv
<1>2. Found(NextNumber, FALSE, FALSE) \in Receipt
  BY <1>1 DEF NextNumber, NumberAfter, Found, Receipt
<1>3. session[w].at \in Attempted /\ "insert" \in Numbered
  BY DEF CountTickets, Attempted, InGateway, Numbered
<1> QED BY <1>2, <1>3, TypeGotoWith DEF CountTickets

LEMMA TypeInsertTicket ==
  ASSUME TypeInv, NEW w \in Workers, InsertTicket(w)
  PROVE  TypeInv'
<1> DEFINE x == [key |-> TaskRow(w).preview, num |-> session[w].result.num]
<1>1. /\ session[w].at \in Numbered
      /\ session[w].at \in Attempted
      /\ session[w].at \in InGateway
      /\ ~At(w, "idle")
      /\ tasks' = tasks
      /\ attempts' = attempts
      /\ approvals' = approvals
      /\ tickets' = tickets \cup {x}
  BY DEF InsertTicket, Numbered, Attempted, InGateway, AddTicket
<1>2. /\ session[w].result \in Receipt
      /\ TaskRow(w).preview \in Key
  <2>1. session[w].result # NoValue /\ TaskRow(w).preview # NoValue
    BY <1>1 DEF TypeInv, SessionsOK, Sound
  <2>2. session[w].result \in Receipt \cup {NoValue}
    BY <1>1, InProgress DEF Session
  <2>3. TaskRow(w).preview \in Key \cup {NoValue}
    BY <1>1, InProgress DEF Row
  <2> QED BY <2>1, <2>2, <2>3
<1>3. x \in [key : Key, num : Nat]
  BY <1>2 DEF Receipt
<1> HIDE DEF x
<1>4. IsFiniteSet(tickets') /\ tickets' \subseteq [key : Key, num : Nat]
  BY <1>1, <1>3, FS_AddElement DEF TypeInv, TypeOK
<1>5. SessionsOK'
  <2>1. PICK place \in {"timed_out", "succeed"} : Goto(w, place)
    BY DEF InsertTicket, AfterInsert
  <2>2. place \in Place /\ place \in Numbered /\ place # "idle" /\ place # "judge"
    BY DEF Place, Executing, Numbered, Attempted, InGateway
  <2>3. "EXECUTING" \in TaskState
    BY DEF TaskState
  <2> QED BY <1>1, <2>1, <2>2, <2>3, TypeFrame, GotoType
<1>6. tasks' \in Rows /\ PreviewsOK(tasks') /\ attempts' \in Seq(Attempt)
  BY <1>1, TypeFrame
<1> QED BY <1>1, <1>4, <1>5, <1>6 DEF TypeInv, TypeOK, Rows, SessionsOK

LEMMA TypeRecordSuccess ==
  ASSUME TypeInv, NEW w \in Workers, RecordSuccess(w)
  PROVE  TypeInv'
<1>1. session[w].at \in Attempted /\ ~At(w, "idle") /\ Store(w, TaskRow(w), "CONFIRMING")
  BY DEF RecordSuccess, Attempted, InGateway
<1>2. tasks' \in Rows /\ RowsKept(tasks, tasks') /\ PreviewsOK(tasks')
  BY <1>1, TransitionType DEF TaskState
<1>3. attempts' \in Seq(Attempt) /\ Len(attempts) = Len(attempts')
  BY <1>1, SetAttemptType DEF RecordSuccess, AttemptStatus
<1>4. SessionsOK'
  BY <1>1, <1>2, <1>3, GotoType
  DEF RecordSuccess, Place, Executing, InGateway, Attempted, Numbered, TaskState
<1> QED BY <1>2, <1>3, <1>4, TypeStep DEF RecordSuccess

LEMMA TypeRecordTimeout ==
  ASSUME TypeInv, NEW w \in Workers, RecordTimeout(w)
  PROVE  TypeInv'
<1>1. session[w].at \in Attempted /\ ~At(w, "idle") /\ Store(w, TaskRow(w), "RECONCILING")
  BY DEF RecordTimeout, Attempted, InGateway
<1>2. tasks' \in Rows /\ RowsKept(tasks, tasks') /\ PreviewsOK(tasks')
  BY <1>1, TransitionType DEF TaskState
<1>3. attempts' \in Seq(Attempt) /\ Len(attempts) = Len(attempts')
  BY <1>1, SetAttemptType DEF RecordTimeout, AttemptStatus
<1>4. SessionsOK'
  BY <1>1, <1>2, <1>3, GotoType
  DEF RecordTimeout, Place, Executing, InGateway, Attempted, Numbered, TaskState
<1> QED BY <1>2, <1>3, <1>4, TypeStep DEF RecordTimeout

LEMMA TypeRecordReconciled ==
  ASSUME TypeInv, NEW w \in Workers, RecordReconciled(w)
  PROVE  TypeInv'
<1>1. session[w].at \in Attempted /\ ~At(w, "idle") /\ Store(w, TaskRow(w), "CONFIRMING")
  BY DEF RecordReconciled, Attempted, InGateway
<1>2. tasks' \in Rows /\ RowsKept(tasks, tasks') /\ PreviewsOK(tasks')
  BY <1>1, TransitionType DEF TaskState
<1>3. attempts' \in Seq(Attempt) /\ Len(attempts) = Len(attempts')
  BY <1>1, SetAttemptType DEF RecordReconciled, AttemptStatus
<1>4. SessionsOK'
  BY <1>1, <1>2, <1>3, GotoType
  DEF RecordReconciled, Place, Executing, InGateway, Attempted, Numbered, TaskState
<1> QED BY <1>2, <1>3, <1>4, TypeStep DEF RecordReconciled

LEMMA TypeRecordReceipt ==
  ASSUME TypeInv, NEW w \in Workers, RecordReceipt(w)
  PROVE  TypeInv'
<1> DEFINE row == [TaskRow(w) EXCEPT !.receipt = session[w].result]
<1>1. /\ ~At(w, "idle")
      /\ session[w].at \in Numbered
      /\ attempts' = attempts
      /\ Store(w, row, TaskRow(w).state)
  BY DEF RecordReceipt, Numbered, Attempted, InGateway
<1>2. session[w].result \in Receipt \cup {NoValue}
  BY <1>1, InProgress DEF Session
<1>3. /\ row \in Row
      /\ Kept(TaskRow(w), row)
      /\ row.preview # NoValue => row.action = "create_jira_ticket"
  BY <1>1, <1>2, InProgress DEF Row, Kept
<1> HIDE DEF row
<1>4. tasks' \in Rows /\ RowsKept(tasks, tasks') /\ PreviewsOK(tasks')
  BY <1>1, <1>3, InProgress, StoreEffect
<1>5. SessionsOK'
  BY <1>1, <1>4, AttemptsFrame, GotoType
  DEF RecordReceipt, Place, Executing, InGateway, Attempted, Numbered, TaskState
<1> QED BY <1>1, <1>4, <1>5, AttemptsFrame, TypeStep DEF RecordReceipt

LEMMA TypeExecutionFails ==
  ASSUME TypeInv, NEW w \in Workers, ExecutionFails(w)
  PROVE  TypeInv'
<1>1. tasks' = tasks /\ Finish(w) /\ approvals' = approvals /\ tickets' = tickets
  BY DEF ExecutionFails
<1>2. attempts' \in Seq(Attempt) /\ Len(attempts) <= Len(attempts')
  <2>1. CASE At(w, "reconcile")
    <3>1. session[w].at \in Attempted /\ SetAttempt(w, "FAILED_UNCONFIRMED")
      BY <2>1 DEF ExecutionFails, Attempted, InGateway
    <3> QED BY <3>1, SetAttemptType DEF AttemptStatus, TypeInv, TypeOK
  <2>2. CASE ~At(w, "reconcile")
    BY <2>2, AttemptsFrame DEF ExecutionFails
  <2> QED BY <2>1, <2>2
<1>3. RowsKept(tasks, tasks') /\ tasks' \in Rows /\ PreviewsOK(tasks')
  BY <1>1, SameTables DEF TypeInv, TypeOK, Rows
<1> QED BY <1>1, <1>2, <1>3, FinishEffect, TypeStep

-----------------------------------------------------------------------------
(* Types of the whole specification.                                       *)

LEMMA InitTypeInv == Init => TypeInv
<1> SUFFICES ASSUME Init PROVE TypeInv
  OBVIOUS
<1>1. Idle \in Session
  BY DEF Idle, Session, Place
<1>2. SessionsOK
  BY <1>1, IdleSound DEF Init, SessionsOK
<1>3. IsFiniteSet(tickets)
  BY FS_EmptySet DEF Init
<1>4. tasks \in Rows /\ PreviewsOK(tasks)
  BY DEF Init, Rows, PreviewsOK
<1> QED BY <1>2, <1>3, <1>4 DEF Init, TypeInv, TypeOK, SessionsOK, Rows

LEMMA ArriveType ==
  ASSUME TypeInv, NEW w \in Workers, Arrive(w)
  PROVE  TypeInv'
<1>1. CASE \E t \in Tasks, u \in Users, p \in Projects,
              action \in RequestedAction, research \in BOOLEAN, mode \in Modes :
             CreateTask(w, t, u, p, action, research, mode)
  BY <1>1, TypeCreateTask
<1>2. CASE \E t \in Tasks, actor \in Users : Approve(w, t, actor)
  BY <1>2, TypeReadForDecision DEF Approve, TaskState
<1>3. CASE \E t \in Tasks, actor \in Users : Reject(w, t, actor)
  BY <1>3, TypeReadForDecision DEF Reject, TaskState
<1>4. CASE \E t \in Tasks, actor \in Users : Resume(w, t, actor)
  BY <1>4, TypeReadForDecision DEF Resume, TaskState
<1> QED BY <1>1, <1>2, <1>3, <1>4 DEF Arrive

LEMMA ProceedType ==
  ASSUME TypeInv, NEW w \in Workers, Proceed(w)
  PROVE  TypeInv'
<1>1. StoreApproval(w) => TypeInv'
  BY TypeStoreDecision DEF StoreApproval
<1>2. StoreRejection(w) => TypeInv'
  BY TypeStoreDecision DEF StoreRejection
<1> QED
  BY <1>1, <1>2, TypeCreateContract, TypeGatherDocuments, TypeRetrieveDocuments,
     TypeStartAnalysis, TypeAnalyze, TypeRejectAnalysis, TypeProposalReady,
     TypeConcludeCreation, TypeDecisionConflict, TypeMarkApproved,
     TypeMarkRejected, TypePauseAfterApproval, TypeLogResume,
     TypeBeginExecution, TypeOpenAttempt, TypeFindTicket, TypeMissTicket,
     TypeCountTickets, TypeInsertTicket, TypeRecordSuccess, TypeRecordTimeout,
     TypeFindAfterTimeout, TypeRecordReconciled, TypeConfirmTicket,
     TypeRecordReceipt, TypeCompleteAction, TypeExecutionFails
  DEF Proceed

LEMMA StutterType ==
  ASSUME TypeInv, UNCHANGED vars
  PROVE  TypeInv'
  BY DEF TypeInv, TypeOK, SessionsOK, vars

LEMMA NextType ==
  TypeInv /\ [Next]_vars => TypeInv'
<1> SUFFICES ASSUME TypeInv, [Next]_vars PROVE TypeInv'
  OBVIOUS
<1>1. CASE Next
  <2>1. PICK w \in Workers :
          Arrive(w) \/ Proceed(w) \/ CreationFails(w) \/ RequestDies(w)
    BY <1>1 DEF Next
  <2> QED BY <2>1, ArriveType, ProceedType, TypeCreationFails, TypeRequestDies
<1>2. CASE UNCHANGED vars
  BY <1>2, StutterType
<1> QED BY <1>1, <1>2

\* The tables hold values of their columns' types, and every request in
\* progress has the fields its next statement reads: a task that exists, an
\* analysis to judge, a preview to execute, an attempt to update and a number
\* to confirm, whatever the other requests did meanwhile.
THEOREM TypeInvariant == Spec => []TypeInv
  BY InitTypeInv, NextType, PTL DEF Spec

\* The columns of every table hold values of their types.
THEOREM TypeCorrect == Spec => []TypeOK
<1>1. TypeInv => TypeOK
  BY DEF TypeInv
<1> QED BY <1>1, TypeInvariant, PTL

-----------------------------------------------------------------------------
(* Decisions, and the requests and rows they govern.                        *)

Granted(t) == \E a \in approvals : a.task = t /\ a.decision = "approved"
Denied(t) == \E a \in approvals : a.task = t /\ a.decision = "rejected"

\* Nobody else works on a task while the request that creates it runs.
CreatorsAlone ==
  \A w \in Workers : session[w].at \in Creating =>
    /\ TaskRow(w).state \in CreationState
    /\ ~DecisionTaken(session[w].task)
    /\ \A v \in Workers : session[v].task = session[w].task => v = w

OneDecision == \A a, b \in approvals : a.task = b.task => a = b

DecisionsAuthorized ==
  \A a \in approvals :
    Exists(a.task) /\ CanApprove(a.actor, tasks[a.task].project)

\* A request that is about to decide: its actor may, and the task is still
\* pending unless another request has decided it since.
DecidersAuthorized ==
  \A w \in Workers : session[w].at \in Deciding =>
    CanApprove(session[w].actor, TaskRow(w).project)

PendingUntilDecided ==
  \A w \in Workers : session[w].at \in {"approve", "reject"} =>
    DecisionTaken(session[w].task) \/ TaskRow(w).state = "APPROVAL_PENDING"

\* A request that has decided, or executes.
ExecutorsGranted ==
  \A w \in Workers : session[w].at \in Executing \cup {"mark_approved"} =>
    Granted(session[w].task)

DeniersDenied ==
  \A w \in Workers : session[w].at = "mark_rejected" => Denied(session[w].task)

RowsJustified ==
  \A t \in Tasks : Exists(t) =>
    /\ tasks[t].state = "APPROVED" => Granted(t)
    /\ tasks[t].receipt # NoValue => Granted(t)
    /\ Denied(t) => tasks[t].state \in {"APPROVAL_PENDING", "REJECTED"}
    /\ tasks[t].action = "create_jira_ticket"
         => CanWrite(tasks[t].user, tasks[t].project)

DecisionInv ==
  /\ CreatorsAlone
  /\ OneDecision
  /\ DecisionsAuthorized
  /\ DecidersAuthorized
  /\ PendingUntilDecided
  /\ ExecutorsGranted
  /\ DeniersDenied
  /\ RowsJustified

IInv == TypeInv /\ DecisionInv

-----------------------------------------------------------------------------
(* The kinds of steps, by what they change.                                *)

\* Of the sessions, only that of w changes.
OnlySession(w) == \A v \in Workers \ {w} : session'[v] = session[v]

Ends(w) ==
  /\ OnlySession(w)
  /\ session'[w].at = "idle"
  /\ session'[w].task = NoValue

Continues(w, places) ==
  /\ OnlySession(w)
  /\ session'[w].at \in places
  /\ session'[w].task = session[w].task
  /\ session'[w].actor = session[w].actor

\* Of the rows, only that of t changes, and there only columns that say
\* nothing of who asked for what.
OnlyRow(t) ==
  /\ \A u \in Tasks \ {t} : tasks'[u] = tasks[u]
  /\ tasks'[t] # NoValue
  /\ tasks'[t].user = tasks[t].user
  /\ tasks'[t].project = tasks[t].project
  /\ tasks'[t].action = tasks[t].action

LEMMA SessionFacts ==
  ASSUME TypeInv, NEW w \in Workers
  PROVE  /\ session[w].at \in Place
         /\ session[w].at # "idle" => session[w].task \in Tasks
         /\ session[w].at # "idle" => TaskRow(w) # NoValue
         /\ session[w].at = "idle" => session[w].task = NoValue
         /\ session[w].task \in Tasks \cup {NoValue}
         /\ NoValue \notin Tasks
<1>1. session[w] \in Session /\ Sound(session[w], tasks, Len(attempts))
  BY DEF TypeInv, SessionsOK
<1>2. session[w].at \in Place /\ session[w].task \in Tasks \cup {NoValue}
  BY <1>1 DEF Session
<1>3. NoValue \notin Tasks
  BY WorkflowAssumption
<1>4. /\ session[w].at # "idle" => session[w].task \in Tasks /\ TaskRow(w) # NoValue
      /\ session[w].at = "idle" => session[w].task = NoValue
  BY <1>1 DEF Sound
<1> QED BY <1>2, <1>3, <1>4

LEMMA FinishEnds ==
  ASSUME TypeInv, NEW w \in Workers, Finish(w)
  PROVE  Ends(w)
  BY DEF TypeInv, SessionsOK, Finish, Ends, OnlySession, Idle

LEMMA GotoContinues ==
  ASSUME TypeInv, NEW w \in Workers, NEW place, NEW state,
         Goto(w, place) \/ GotoSeeing(w, place, state) \/ GotoWith(w, place, state)
  PROVE  Continues(w, {place})
<1>1. session \in [Workers -> Session] /\ session[w] \in Session
  BY DEF TypeInv, SessionsOK
<1>2. CASE Goto(w, place)
  BY <1>1, <1>2 DEF Goto, Continues, OnlySession, Session
<1>3. CASE GotoSeeing(w, place, state)
  BY <1>1, <1>3 DEF GotoSeeing, Continues, OnlySession, Session
<1>4. CASE GotoWith(w, place, state)
  BY <1>1, <1>4 DEF GotoWith, Continues, OnlySession, Session
<1> QED BY <1>2, <1>3, <1>4

LEMMA StoreRow ==
  ASSUME TypeInv, NEW w \in Workers, ~At(w, "idle"), NEW row \in Row,
         NEW state \in TaskState, Store(w, row, state),
         row.user = TaskRow(w).user,
         row.project = TaskRow(w).project,
         row.action = TaskRow(w).action
  PROVE  LET t == session[w].task IN
         /\ OnlyRow(t)
         /\ tasks'[t].state = state
         /\ tasks'[t].preview = row.preview
         /\ tasks'[t].receipt = row.receipt
<1> DEFINE t == session[w].task
           new == [row EXCEPT !.state = state]
<1>1. /\ new \in Row
      /\ new.user = row.user
      /\ new.project = row.project
      /\ new.action = row.action
      /\ new.state = state
      /\ new.preview = row.preview
      /\ new.receipt = row.receipt
  BY DEF Row
<1>2. t \in Tasks /\ tasks' = [tasks EXCEPT ![t] = new] /\ tasks \in Rows
  BY InProgress DEF Store, TypeInv, TypeOK, Rows
<1> HIDE DEF new
<1>3. tasks'[t] = new /\ \A u \in Tasks \ {t} : tasks'[u] = tasks[u]
  BY <1>2 DEF Rows
<1> QED BY <1>1, <1>3, WorkflowAssumption DEF OnlyRow

LEMMA SameRows ==
  ASSUME TypeInv, NEW w \in Workers, ~At(w, "idle"), tasks' = tasks
  PROVE  OnlyRow(session[w].task)
  BY InProgress DEF OnlyRow

-----------------------------------------------------------------------------
(* DecisionInv is preserved by each kind of step.                          *)

\* A request that ends and writes nothing.
LEMMA EndDecision ==
  ASSUME IInv, NEW w \in Workers, Ends(w),
         UNCHANGED <<tasks, approvals>>
  PROVE  DecisionInv'
<1>1. \A v \in Workers :
        \/ session'[v] = session[v]
        \/ session'[v].at = "idle" /\ session'[v].task = NoValue
  BY DEF Ends, OnlySession
<1>2. CreatorsAlone'
  BY <1>1, SessionFacts DEF IInv, DecisionInv, CreatorsAlone, Creating, DecisionTaken
<1>3. DecidersAuthorized' /\ PendingUntilDecided'
  BY <1>1 DEF IInv, DecisionInv, DecidersAuthorized, PendingUntilDecided,
              DecisionTaken, Deciding
<1>4. ExecutorsGranted' /\ DeniersDenied'
  BY <1>1 DEF IInv, DecisionInv, ExecutorsGranted, DeniersDenied, Granted, Denied,
              Executing
<1>5. OneDecision' /\ DecisionsAuthorized'
  BY DEF IInv, DecisionInv, OneDecision, DecisionsAuthorized
<1>6. RowsJustified'
  BY DEF IInv, DecisionInv, RowsJustified, Granted, Denied
<1> QED BY <1>2, <1>3, <1>4, <1>5, <1>6 DEF DecisionInv

\* A step of create_task after the first.
LEMMA CreationDecision ==
  ASSUME IInv, NEW w \in Workers, session[w].at \in Creating,
         OnlyRow(session[w].task),
         tasks'[session[w].task].receipt = TaskRow(w).receipt,
         tasks'[session[w].task].state # "APPROVED",
         \/ Ends(w)
         \/ /\ Continues(w, Creating)
            /\ tasks'[session[w].task].state \in CreationState,
         approvals' = approvals
  PROVE  DecisionInv'
<1> DEFINE t == session[w].task
<1>1. /\ t \in Tasks
      /\ TaskRow(w) # NoValue
      /\ NoValue \notin Tasks
      /\ session[w].at \notin Deciding \cup Executing
  <2>1. session[w].at # "idle" /\ session[w].at \notin Deciding \cup Executing
    BY DEF Creating, Deciding, Executing
  <2> QED BY <2>1, SessionFacts DEF IInv
<1>2. /\ ~DecisionTaken(t)
      /\ \A v \in Workers : session[v].task = t => v = w
  BY DEF IInv, DecisionInv, CreatorsAlone
<1>3. /\ \A u \in Tasks : tasks[u] # NoValue => tasks'[u] # NoValue
      /\ \A u \in Tasks : u # t => tasks'[u] = tasks[u]
  BY <1>1 DEF OnlyRow
<1>4. \A v \in Workers \ {w} : session'[v] = session[v] /\ session[v].task # t
  BY <1>2 DEF Ends, Continues, OnlySession
<1>5. \/ session'[w].at = "idle" /\ session'[w].task = NoValue
      \/ /\ session'[w].at \in Creating /\ session'[w].task = t
         /\ tasks'[t].state \in CreationState
  BY DEF Ends, Continues
<1>6. CreatorsAlone'
  <2> SUFFICES ASSUME NEW v \in Workers, session'[v].at \in Creating
               PROVE  /\ tasks'[session'[v].task].state \in CreationState
                      /\ ~DecisionTaken(session'[v].task)
                      /\ \A u \in Workers :
                           session'[u].task = session'[v].task => u = v
    BY DEF CreatorsAlone, DecisionTaken
  <2>1. CASE v = w
    <3>1. session'[w].task = t /\ tasks'[t].state \in CreationState
      BY <1>5, <2>1 DEF Creating
    <3>2. \A u \in Workers : session'[u].task = t => u = w
      BY <1>4
    <3> QED BY <1>2, <2>1, <3>1, <3>2
  <2>2. CASE v # w
    <3>1. session'[v] = session[v] /\ session[v].task # t /\ session[v].at \in Creating
      BY <1>4, <2>2
    <3>2. session[v].task \in Tasks
      <4>1. session[v].at # "idle"
        BY <3>1 DEF Creating
      <4> QED BY <4>1, SessionFacts DEF IInv
    <3>3. /\ tasks[session[v].task].state \in CreationState
          /\ ~DecisionTaken(session[v].task)
          /\ \A u \in Workers : session[u].task = session[v].task => u = v
      BY <3>1 DEF IInv, DecisionInv, CreatorsAlone
    <3>4. session'[w].task # session[v].task
      BY <1>1, <1>5, <3>1, <3>2
    <3>5. tasks'[session[v].task] = tasks[session[v].task]
      BY <1>3, <3>1, <3>2
    <3>6. \A u \in Workers : session'[u].task = session[v].task => u = v
      BY <1>4, <3>3, <3>4
    <3> QED BY <3>1, <3>3, <3>5, <3>6
  <2> QED BY <2>1, <2>2
<1>7. \A v \in Workers : session'[v].at \in Deciding \cup Executing =>
        /\ session'[v] = session[v]
        /\ session[v].task \in Tasks
        /\ tasks'[session[v].task] = tasks[session[v].task]
  <2>1. session'[w].at \notin Deciding \cup Executing
    BY <1>5 DEF Creating, Deciding, Executing
  <2> SUFFICES ASSUME NEW v \in Workers,
                      session'[v].at \in Deciding \cup Executing
               PROVE  /\ session'[v] = session[v]
                      /\ session[v].task \in Tasks
                      /\ tasks'[session[v].task] = tasks[session[v].task]
    OBVIOUS
  <2>2. session'[v] = session[v] /\ session[v].task # t
    BY <1>4, <2>1
  <2>3. session[v].at # "idle"
    BY <2>2 DEF Deciding, Executing
  <2> QED BY <1>3, <2>2, <2>3, SessionFacts DEF IInv
<1>8. DecidersAuthorized' /\ PendingUntilDecided'
  BY <1>7 DEF IInv, DecisionInv, DecidersAuthorized, PendingUntilDecided,
              DecisionTaken, Deciding
<1>9. ExecutorsGranted' /\ DeniersDenied'
  BY <1>7 DEF IInv, DecisionInv, ExecutorsGranted, DeniersDenied, Granted, Denied,
              Deciding
<1>10. \A a \in approvals : a.task \in Tasks /\ a.task # t
  BY <1>2 DEF DecisionTaken, IInv, TypeInv, TypeOK, Approval
<1>11. OneDecision' /\ DecisionsAuthorized'
  BY <1>3, <1>10 DEF IInv, DecisionInv, OneDecision, DecisionsAuthorized
<1>12. RowsJustified'
  <2>1. ~Granted(t) /\ ~Denied(t)
    BY <1>2 DEF Granted, Denied, DecisionTaken
  <2>2. \A u \in Tasks : Granted(u)' = Granted(u) /\ Denied(u)' = Denied(u)
    BY DEF Granted, Denied
  <2> SUFFICES ASSUME NEW u \in Tasks, tasks'[u] # NoValue
               PROVE  /\ tasks'[u].state = "APPROVED" => Granted(u)
                      /\ tasks'[u].receipt # NoValue => Granted(u)
                      /\ Denied(u) =>
                           tasks'[u].state \in {"APPROVAL_PENDING", "REJECTED"}
                      /\ tasks'[u].action = "create_jira_ticket"
                           => CanWrite(tasks'[u].user, tasks'[u].project)
    BY <2>2 DEF RowsJustified
  <2>3. CASE u # t
    BY <1>3, <2>3 DEF IInv, DecisionInv, RowsJustified
  <2>4. CASE u = t
    BY <1>1, <2>1, <2>4 DEF IInv, DecisionInv, RowsJustified, OnlyRow
  <2> QED BY <2>3, <2>4
<1> QED BY <1>6, <1>8, <1>9, <1>11, <1>12 DEF DecisionInv

\* The places of a request whose task is decided.
Decided == {"mark_approved", "mark_rejected"} \cup Executing

\* A step of a request whose task is decided, but for the insert: it works on
\* a granted task, or it stores REJECTED.
LEMMA DecidedDecision ==
  ASSUME IInv, NEW w \in Workers, session[w].at \in Decided,
         OnlyRow(session[w].task),
         tasks'[session[w].task].preview = TaskRow(w).preview,
         session[w].at = "mark_rejected" =>
           /\ tasks'[session[w].task].state = "REJECTED"
           /\ tasks'[session[w].task].receipt = TaskRow(w).receipt,
         \/ Ends(w)
         \/ session[w].at # "mark_rejected" /\ Continues(w, Executing),
         approvals' = approvals
  PROVE  DecisionInv'
<1> DEFINE t == session[w].task
<1>1. /\ t \in Tasks
      /\ TaskRow(w) # NoValue
      /\ NoValue \notin Tasks
      /\ session[w].at \notin Creating \cup {"approve", "reject"}
  <2>1. /\ session[w].at # "idle"
        /\ session[w].at \notin Creating \cup {"approve", "reject"}
    BY DEF Decided, Creating, Executing
  <2> QED BY <2>1, SessionFacts DEF IInv
<1>2. /\ session[w].at # "mark_rejected" => Granted(t)
      /\ session[w].at = "mark_rejected" => Denied(t)
  BY DEF Decided, IInv, DecisionInv, ExecutorsGranted, DeniersDenied
<1>3. DecisionTaken(t) /\ ~(Granted(t) /\ Denied(t))
  BY <1>2 DEF DecisionTaken, Granted, Denied, IInv, DecisionInv, OneDecision
<1>4. /\ \A u \in Tasks : u # t => tasks'[u] = tasks[u]
      /\ \A u \in Tasks : tasks[u] # NoValue =>
           /\ tasks'[u] # NoValue
           /\ tasks'[u].project = tasks[u].project
           /\ tasks'[u].preview = tasks[u].preview
  BY <1>1 DEF OnlyRow
<1>5. \A v \in Workers \ {w} : session'[v] = session[v]
  BY DEF Ends, Continues, OnlySession
<1>6. \/ session'[w].at = "idle" /\ session'[w].task = NoValue
      \/ /\ session[w].at # "mark_rejected"
         /\ session'[w].at \in Executing
         /\ session'[w].task = t
  BY DEF Ends, Continues
<1>7. session'[w].at \notin Creating \cup Deciding
  BY <1>6 DEF Creating, Deciding, Executing
<1>8. \A v \in Workers : session[v].at \in Creating => session[v].task # t
  BY <1>3 DEF IInv, DecisionInv, CreatorsAlone
<1>9. \A v \in Workers : session[v].at \in Creating \cup Deciding =>
        session[v].task \in Tasks /\ tasks[session[v].task] # NoValue
  <2>1. \A v \in Workers : session[v].at \in Creating \cup Deciding =>
          session[v].at # "idle"
    BY DEF Creating, Deciding
  <2> QED BY <2>1, SessionFacts DEF IInv
<1>10. CreatorsAlone'
  <2> SUFFICES ASSUME NEW v \in Workers, session'[v].at \in Creating
               PROVE  /\ tasks'[session'[v].task].state \in CreationState
                      /\ ~DecisionTaken(session'[v].task)
                      /\ \A u \in Workers :
                           session'[u].task = session'[v].task => u = v
    BY DEF CreatorsAlone, DecisionTaken
  <2>1. session'[v] = session[v] /\ v # w /\ session[v].at \in Creating
    BY <1>5, <1>7
  <2>2. /\ session[v].task \in Tasks
        /\ session[v].task # t
        /\ tasks'[session[v].task] = tasks[session[v].task]
    BY <1>4, <1>8, <1>9, <2>1
  <2>3. session'[w].task # session[v].task
    BY <1>1, <1>6, <2>2
  <2> QED BY <1>5, <2>1, <2>2, <2>3 DEF IInv, DecisionInv, CreatorsAlone
<1>11. \A v \in Workers : session'[v].at \in Deciding =>
         /\ session'[v] = session[v]
         /\ session[v].task \in Tasks
         /\ tasks'[session[v].task].project = tasks[session[v].task].project
         /\ \/ session[v].task = t
            \/ tasks'[session[v].task] = tasks[session[v].task]
  BY <1>4, <1>5, <1>7, <1>9
<1>12. DecidersAuthorized'
  BY <1>11 DEF IInv, DecisionInv, DecidersAuthorized
<1>13. PendingUntilDecided'
  BY <1>3, <1>11 DEF IInv, DecisionInv, PendingUntilDecided, DecisionTaken, Deciding
<1>14. ExecutorsGranted' /\ DeniersDenied'
  BY <1>2, <1>5, <1>6 DEF IInv, DecisionInv, ExecutorsGranted, DeniersDenied,
                          Granted, Denied, Executing
<1>15. OneDecision' /\ DecisionsAuthorized'
  <2>1. \A a \in approvals : a.task \in Tasks
    BY DEF IInv, TypeInv, TypeOK, Approval
  <2> QED BY <1>4, <2>1 DEF IInv, DecisionInv, OneDecision, DecisionsAuthorized
<1>16. RowsJustified'
  <2>1. \A u \in Tasks : Granted(u)' = Granted(u) /\ Denied(u)' = Denied(u)
    BY DEF Granted, Denied
  <2> SUFFICES ASSUME NEW u \in Tasks, tasks'[u] # NoValue
               PROVE  /\ tasks'[u].state = "APPROVED" => Granted(u)
                      /\ tasks'[u].receipt # NoValue => Granted(u)
                      /\ Denied(u) =>
                           tasks'[u].state \in {"APPROVAL_PENDING", "REJECTED"}
                      /\ tasks'[u].action = "create_jira_ticket"
                           => CanWrite(tasks'[u].user, tasks'[u].project)
    BY <2>1 DEF RowsJustified
  <2>2. CASE u # t
    BY <1>4, <2>2 DEF IInv, DecisionInv, RowsJustified
  <2>3. CASE u = t
    BY <1>1, <1>2, <1>3, <2>3 DEF IInv, DecisionInv, RowsJustified, OnlyRow
  <2> QED BY <2>2, <2>3
<1> QED BY <1>10, <1>12, <1>13, <1>14, <1>15, <1>16 DEF DecisionInv

\* A request that is about to decide, or to execute.
LEMMA ReadDecision ==
  ASSUME IInv, NEW w \in Workers, NEW t \in Tasks, NEW actor \in Users,
         NEW state, NEW place,
         \/ state = "APPROVAL_PENDING" /\ place \in {"approve", "reject"}
         \/ state = "APPROVED" /\ place = "resume",
         ReadForDecision(w, t, actor, state, place)
  PROVE  DecisionInv'
<1>1. /\ tasks[t] # NoValue
      /\ tasks[t].state = state
      /\ CanApprove(actor, tasks[t].project)
      /\ UNCHANGED <<tasks, approvals, attempts, tickets>>
      /\ session[w].at = "idle"
  BY DEF ReadForDecision, MayDecide
<1>2. /\ session'[w].at = place
      /\ session'[w].task = t
      /\ session'[w].actor = actor
      /\ OnlySession(w)
  BY DEF ReadForDecision, Begin, IInv, TypeInv, SessionsOK, OnlySession
<1>3. state \notin CreationState /\ place \notin Creating
  BY DEF CreationState, Creating
<1>4. \A v \in Workers : session[v].at \in Creating => session[v].task # t
  BY <1>1, <1>3 DEF IInv, DecisionInv, CreatorsAlone
<1>5. CreatorsAlone'
  BY <1>1, <1>2, <1>3, <1>4 DEF IInv, DecisionInv, CreatorsAlone, DecisionTaken,
                                OnlySession
<1>6. DecidersAuthorized' /\ PendingUntilDecided'
  BY <1>1, <1>2 DEF IInv, DecisionInv, DecidersAuthorized, PendingUntilDecided,
                    DecisionTaken, OnlySession, Deciding
<1>7. ExecutorsGranted' /\ DeniersDenied'
  <2>1. state = "APPROVED" => Granted(t)
    BY <1>1 DEF IInv, DecisionInv, RowsJustified
  <2>2. place \in Executing \cup {"mark_approved"} => state = "APPROVED"
    BY DEF Executing
  <2>3. place # "mark_rejected"
    OBVIOUS
  <2> QED BY <1>1, <1>2, <2>1, <2>2, <2>3
          DEF IInv, DecisionInv, ExecutorsGranted, DeniersDenied, Granted, Denied,
              OnlySession
<1>8. OneDecision' /\ DecisionsAuthorized'
  BY <1>1 DEF IInv, DecisionInv, OneDecision, DecisionsAuthorized
<1>9. RowsJustified'
  BY <1>1 DEF IInv, DecisionInv, RowsJustified, Granted, Denied
<1> QED BY <1>5, <1>6, <1>7, <1>8, <1>9 DEF DecisionInv

\* The commit of a decision: uq_approval_task lets only the first one pass.
LEMMA StoreDecisionDecision ==
  ASSUME IInv, NEW w \in Workers, NEW place, NEW decision, NEW type, NEW next,
         \/ /\ place = "approve" /\ decision = "approved"
            /\ next = "mark_approved"
         \/ /\ place = "reject" /\ decision = "rejected"
            /\ next = "mark_rejected",
         StoreDecision(w, place, decision, type, next)
  PROVE  DecisionInv'
<1> DEFINE t == session[w].task
           d == [task |-> t, decision |-> decision, actor |-> session[w].actor]
<1>1. /\ session[w].at = place /\ ~At(w, "idle")
      /\ ~DecisionTaken(t)
      /\ approvals' = approvals \cup {d}
      /\ Goto(w, next)
      /\ UNCHANGED <<tasks, attempts, tickets>>
  BY DEF StoreDecision
<1>2. /\ session'[w].at = next
      /\ session'[w].task = t
      /\ session'[w].actor = session[w].actor
      /\ \A v \in Workers \ {w} : session'[v] = session[v]
  BY <1>1, GotoContinues DEF Continues, OnlySession, IInv
<1>3. /\ t \in Tasks
      /\ tasks[t] # NoValue
      /\ TaskRow(w).state = "APPROVAL_PENDING"
      /\ CanApprove(session[w].actor, TaskRow(w).project)
  BY <1>1, InProgress DEF IInv, DecisionInv, PendingUntilDecided,
                          DecidersAuthorized, Deciding
<1>4. /\ d.task = t /\ d.decision = decision /\ d.actor = session[w].actor
      /\ d \in approvals'
  BY <1>1
<1> HIDE DEF d
<1>5. /\ DecisionTaken(t)'
      /\ decision = "approved" => Granted(t)'
      /\ decision = "rejected" => Denied(t)'
  BY <1>2, <1>4 DEF DecisionTaken, Granted, Denied
<1>6. \A u : u # t => /\ DecisionTaken(u)' = DecisionTaken(u)
                      /\ Granted(u)' = Granted(u)
                      /\ Denied(u)' = Denied(u)
  BY <1>1, <1>4 DEF DecisionTaken, Granted, Denied
<1>7. \A u : /\ Granted(u) => Granted(u)'
             /\ DecisionTaken(u) => DecisionTaken(u)'
             /\ Denied(u) => Denied(u)'
  BY <1>1 DEF DecisionTaken, Granted, Denied
<1>8. \A v \in Workers : session[v].at \in Creating => session[v].task # t
  BY <1>3 DEF IInv, DecisionInv, CreatorsAlone, CreationState
<1>9. CreatorsAlone'
  <2>1. next \notin Creating
    BY DEF Creating
  <2>2. \A v \in Workers : session'[v].at \in Creating =>
          v # w /\ session'[v] = session[v] /\ session[v].task # t
    BY <1>2, <1>8, <2>1
  <2> QED BY <1>1, <1>2, <1>6, <2>2 DEF IInv, DecisionInv, CreatorsAlone
<1>10. DecidersAuthorized'
  BY <1>1, <1>2, <1>3 DEF IInv, DecisionInv, DecidersAuthorized
<1>11. PendingUntilDecided'
  BY <1>1, <1>2, <1>7 DEF IInv, DecisionInv, PendingUntilDecided
<1>12. ExecutorsGranted'
  <2>1. next \in Executing \cup {"mark_approved"} => decision = "approved"
    BY DEF Executing
  <2> QED BY <1>2, <1>5, <1>7, <2>1 DEF IInv, DecisionInv, ExecutorsGranted
<1>13. DeniersDenied'
  BY <1>2, <1>5, <1>7 DEF IInv, DecisionInv, DeniersDenied
<1>14. OneDecision' /\ DecisionsAuthorized'
  <2>1. \A a \in approvals : a.task # t
    BY <1>1 DEF DecisionTaken
  <2>2. \A a \in approvals' : a \in approvals \/ a = d
    BY <1>1
  <2> QED BY <1>1, <1>3, <1>4, <2>1, <2>2
          DEF IInv, DecisionInv, OneDecision, DecisionsAuthorized
<1>15. RowsJustified'
  <2> SUFFICES ASSUME NEW u \in Tasks, tasks[u] # NoValue
               PROVE  /\ tasks[u].state = "APPROVED" => Granted(u)'
                      /\ tasks[u].receipt # NoValue => Granted(u)'
                      /\ Denied(u)' =>
                           tasks[u].state \in {"APPROVAL_PENDING", "REJECTED"}
                      /\ tasks[u].action = "create_jira_ticket"
                           => CanWrite(tasks[u].user, tasks[u].project)
    BY <1>1 DEF RowsJustified
  <2>1. CASE u # t
    BY <1>6, <2>1 DEF IInv, DecisionInv, RowsJustified
  <2>2. CASE u = t
    BY <1>3, <1>7, <2>2 DEF IInv, DecisionInv, RowsJustified
  <2> QED BY <2>1, <2>2
<1> QED BY <1>9, <1>10, <1>11, <1>12, <1>13, <1>14, <1>15 DEF DecisionInv

LEMMA CreateTaskDecision ==
  ASSUME IInv, NEW w \in Workers, NEW t \in Tasks, NEW u \in Users,
         NEW p \in Projects, NEW action \in RequestedAction,
         NEW research \in BOOLEAN, NEW mode \in Modes,
         CreateTask(w, t, u, p, action, research, mode)
  PROVE  DecisionInv'
<1> DEFINE row == NewRow(u, p, action, ChooseLane(research, action), mode)
<1>1. /\ tasks[t] = NoValue
      /\ tasks' = [tasks EXCEPT ![t] = row]
      /\ session[w].at = "idle"
      /\ UNCHANGED <<approvals, attempts, tickets>>
  BY DEF CreateTask
<1>2. /\ row.user = u /\ row.project = p /\ row.action = action
      /\ row.state = "RECEIVED" /\ row.receipt = NoValue
      /\ row.preview = NoValue
  BY DEF NewRow
<1>3. action = "create_jira_ticket" => CanWrite(u, p)
  BY DEF CreateTask, MayCreate, ChooseLane
<1> HIDE DEF row
<1>4. tasks'[t] = row /\ \A v \in Tasks : v # t => tasks'[v] = tasks[v]
  BY <1>1 DEF IInv, TypeInv, TypeOK
<1>5. /\ session'[w].at = "contract"
      /\ session'[w].task = t
      /\ \A v \in Workers \ {w} : session'[v] = session[v]
  BY DEF CreateTask, Begin, IInv, TypeInv, SessionsOK
<1>6. \A v \in Workers : session[v].task # t
  <2> SUFFICES ASSUME NEW v \in Workers, session[v].task = t PROVE FALSE
    OBVIOUS
  <2> QED BY <1>1, SessionFacts DEF IInv
<1>7. \A a \in approvals : a.task \in Tasks /\ a.task # t
  BY <1>1 DEF IInv, TypeInv, TypeOK, Approval, DecisionInv, DecisionsAuthorized
<1>8. \A v \in Workers \ {w} :
        /\ session'[v] = session[v]
        /\ session[v].at # "idle" => /\ session[v].task \in Tasks
                                     /\ tasks'[session[v].task] = tasks[session[v].task]
  BY <1>4, <1>5, <1>6, SessionFacts DEF IInv
<1>9. \A v : /\ DecisionTaken(v)' = DecisionTaken(v)
             /\ Granted(v)' = Granted(v)
             /\ Denied(v)' = Denied(v)
  BY <1>1 DEF DecisionTaken, Granted, Denied
<1>10. ~DecisionTaken(t) /\ ~Granted(t) /\ ~Denied(t)
  BY <1>7 DEF DecisionTaken, Granted, Denied
<1>11. CreatorsAlone'
  <2> SUFFICES ASSUME NEW v \in Workers, session'[v].at \in Creating
               PROVE  /\ tasks'[session'[v].task].state \in CreationState
                      /\ ~DecisionTaken(session'[v].task)
                      /\ \A x \in Workers :
                           session'[x].task = session'[v].task => x = v
    BY <1>1 DEF CreatorsAlone, DecisionTaken
  <2>1. CASE v = w
    BY <1>2, <1>4, <1>5, <1>6, <1>10, <2>1 DEF CreationState
  <2>2. CASE v # w
    <3>1. session'[v] = session[v] /\ session[v].at \in Creating
      BY <1>5, <2>2
    <3>2. session[v].at # "idle"
      BY <3>1 DEF Creating
    <3>3. /\ tasks[session[v].task].state \in CreationState
          /\ ~DecisionTaken(session[v].task)
          /\ \A x \in Workers : session[x].task = session[v].task => x = v
      BY <3>1 DEF IInv, DecisionInv, CreatorsAlone
    <3> QED BY <1>5, <1>6, <1>8, <2>2, <3>1, <3>2, <3>3
  <2> QED BY <2>1, <2>2
<1>12. \A v \in Workers : session'[v].at \in Deciding \cup Executing =>
         /\ session'[v] = session[v]
         /\ tasks'[session[v].task] = tasks[session[v].task]
  <2>1. \A v \in Workers : session'[v].at \in Deciding \cup Executing =>
          v # w /\ session'[v].at # "idle"
    BY <1>5 DEF Deciding, Executing
  <2> QED BY <1>8, <2>1
<1>13. DecidersAuthorized' /\ PendingUntilDecided'
  BY <1>9, <1>12 DEF IInv, DecisionInv, DecidersAuthorized, PendingUntilDecided,
                     Deciding
<1>14. ExecutorsGranted' /\ DeniersDenied'
  BY <1>9, <1>12 DEF IInv, DecisionInv, ExecutorsGranted, DeniersDenied, Deciding
<1>15. OneDecision' /\ DecisionsAuthorized'
  BY <1>1, <1>4, <1>7 DEF IInv, DecisionInv, OneDecision, DecisionsAuthorized
<1>16. RowsJustified'
  BY <1>2, <1>3, <1>4, <1>9, <1>10 DEF IInv, DecisionInv, RowsJustified
<1> QED BY <1>11, <1>13, <1>14, <1>15, <1>16 DEF DecisionInv

-----------------------------------------------------------------------------
(* Each action is a step of one of these kinds.                            *)

\* The actions of create_task that store `state` and go on at `place`.
LEMMA AdvanceDecision ==
  ASSUME IInv, NEW w \in Workers, NEW from \in Creating, NEW to \in Creating,
         NEW state \in CreationState, Advance(w, from, state, to)
  PROVE  DecisionInv'
<1>1. /\ session[w].at \in Creating /\ ~At(w, "idle")
      /\ Store(w, TaskRow(w), state)
      /\ GotoSeeing(w, to, state)
  BY DEF Advance, Transition, Creating
<1>2. state \in TaskState /\ state # "APPROVED" /\ TaskRow(w) \in Row
  BY <1>1, InProgress DEF IInv, CreationState, TaskState
<1>3. /\ OnlyRow(session[w].task)
      /\ tasks'[session[w].task].state = state
      /\ tasks'[session[w].task].receipt = TaskRow(w).receipt
  BY <1>1, <1>2, StoreRow DEF IInv
<1>4. Continues(w, Creating)
  BY <1>1, GotoContinues DEF IInv, Continues
<1> QED BY <1>1, <1>2, <1>3, <1>4, CreationDecision DEF Advance

LEMMA RetrieveDocumentsDecision ==
  ASSUME IInv, NEW w \in Workers, NEW flagged \in BOOLEAN,
         RetrieveDocuments(w, flagged)
  PROVE  DecisionInv'
<1>1. /\ session[w].at \in Creating /\ ~At(w, "idle")
      /\ tasks' = tasks
      /\ Goto(w, "verify")
  BY DEF RetrieveDocuments, Creating
<1>2. OnlyRow(session[w].task)
  BY <1>1, SameRows DEF IInv
<1>3. Continues(w, Creating)
  <2>1. Continues(w, {"verify"})
    BY <1>1, GotoContinues DEF IInv
  <2> QED BY <2>1 DEF Continues, Creating
<1>4. TaskRow(w).state \in CreationState /\ TaskRow(w).state # "APPROVED"
  BY <1>1 DEF IInv, DecisionInv, CreatorsAlone, CreationState
<1> QED BY <1>1, <1>2, <1>3, <1>4, CreationDecision DEF RetrieveDocuments

LEMMA AnalyzeDecision ==
  ASSUME IInv, NEW w \in Workers, NEW content \in Contents,
         NEW verdict \in {"passed", "failed"}, Analyze(w, content, verdict)
  PROVE  DecisionInv'
<1> DEFINE row == [TaskRow(w) EXCEPT !.analysis = content, !.verified = verdict]
<1>1. /\ session[w].at \in Creating /\ ~At(w, "idle")
      /\ Store(w, row, TaskRow(w).state)
      /\ Goto(w, "judge")
  BY DEF Analyze, Creating
<1>2. TaskRow(w) \in Row /\ TaskRow(w).state \in TaskState
  BY <1>1, InProgress DEF IInv
<1>3. /\ row \in Row
      /\ row.user = TaskRow(w).user
      /\ row.project = TaskRow(w).project
      /\ row.action = TaskRow(w).action
      /\ row.receipt = TaskRow(w).receipt
  BY <1>2 DEF Row
<1> HIDE DEF row
<1>4. /\ OnlyRow(session[w].task)
      /\ tasks'[session[w].task].state = TaskRow(w).state
      /\ tasks'[session[w].task].receipt = TaskRow(w).receipt
  BY <1>1, <1>2, <1>3, StoreRow DEF IInv
<1>5. Continues(w, Creating)
  <2>1. Continues(w, {"judge"})
    BY <1>1, GotoContinues DEF IInv
  <2> QED BY <2>1 DEF Continues, Creating
<1>6. TaskRow(w).state \in CreationState /\ TaskRow(w).state # "APPROVED"
  BY <1>1 DEF IInv, DecisionInv, CreatorsAlone, CreationState
<1> QED BY <1>1, <1>4, <1>5, <1>6, CreationDecision DEF Analyze

LEMMA ProposalReadyDecision ==
  ASSUME IInv, NEW w \in Workers, ProposalReady(w), TypeInv'
  PROVE  DecisionInv'
<1> DEFINE row == [TaskRow(w) EXCEPT !.preview = PreviewOf(TaskRow(w))]
<1>1. /\ session[w].at \in Creating /\ ~At(w, "idle")
      /\ session[w].at = "judge"
      /\ Store(w, row, "PROPOSAL_READY")
      /\ GotoSeeing(w, "conclude", "PROPOSAL_READY")
  BY DEF ProposalReady, Transition, Creating
<1>2. TaskRow(w) \in Row
  BY <1>1, InProgress DEF IInv
<1>3. PreviewOf(TaskRow(w)) \in Key \cup {NoValue}
  <2>1. TaskRow(w).analysis \in Contents
    BY <1>1, <1>2 DEF IInv, TypeInv, SessionsOK, Sound, Row
  <2> QED BY <1>2, <2>1 DEF PreviewOf, Key, Row
<1>4. /\ row \in Row
      /\ row.user = TaskRow(w).user
      /\ row.project = TaskRow(w).project
      /\ row.action = TaskRow(w).action
      /\ row.receipt = TaskRow(w).receipt
  BY <1>2, <1>3 DEF Row
<1> HIDE DEF row
<1>5. /\ OnlyRow(session[w].task)
      /\ tasks'[session[w].task].state = "PROPOSAL_READY"
      /\ tasks'[session[w].task].receipt = TaskRow(w).receipt
  BY <1>1, <1>4, StoreRow DEF IInv, TaskState
<1>6. Continues(w, Creating)
  <2>1. Continues(w, {"conclude"})
    BY <1>1, GotoContinues DEF IInv
  <2> QED BY <2>1 DEF Continues, Creating
<1> QED BY <1>1, <1>5, <1>6, CreationDecision DEF ProposalReady, CreationState

\* The steps that end create_task.
LEMMA EndCreationDecision ==
  ASSUME IInv, NEW w \in Workers,
         RejectAnalysis(w) \/ ConcludeCreation(w) \/ CreationFails(w)
  PROVE  DecisionInv'
<1>1. PICK state \in {"FAILED", "COMPLETED", "APPROVAL_PENDING"} :
        Store(w, TaskRow(w), state)
  BY DEF RejectAnalysis, ConcludeCreation, CreationFails, Transition, Conclusion
<1>2. session[w].at \in Creating /\ ~At(w, "idle") /\ Finish(w)
  BY DEF RejectAnalysis, ConcludeCreation, CreationFails, Creating
<1>3. TaskRow(w) \in Row /\ state \in TaskState /\ state # "APPROVED"
  BY <1>2, InProgress DEF IInv, TaskState
<1>4. /\ OnlyRow(session[w].task)
      /\ tasks'[session[w].task].state = state
      /\ tasks'[session[w].task].receipt = TaskRow(w).receipt
  BY <1>1, <1>2, <1>3, StoreRow DEF IInv
<1>5. Ends(w)
  BY <1>2, FinishEnds DEF IInv
<1>6. UNCHANGED <<approvals, attempts, tickets>>
  BY DEF RejectAnalysis, ConcludeCreation, CreationFails
<1> QED BY <1>2, <1>3, <1>4, <1>5, <1>6, CreationDecision

\* The steps after a decision that store `state` and may update an attempt.
LEMMA StoreDecided ==
  ASSUME IInv, NEW w \in Workers, session[w].at \in Decided,
         NEW state \in TaskState, Store(w, TaskRow(w), state),
         session[w].at = "mark_rejected" => state = "REJECTED",
         \/ Finish(w)
         \/ /\ session[w].at # "mark_rejected"
            /\ \E place \in Executing : GotoSeeing(w, place, state),
         approvals' = approvals
  PROVE  DecisionInv'
<1>1. ~At(w, "idle")
  BY DEF Decided, Executing
<1>2. /\ OnlyRow(session[w].task)
      /\ tasks'[session[w].task].state = state
      /\ tasks'[session[w].task].preview = TaskRow(w).preview
      /\ tasks'[session[w].task].receipt = TaskRow(w).receipt
  BY <1>1, InProgress, StoreRow DEF IInv
<1>3. \/ Ends(w)
      \/ session[w].at # "mark_rejected" /\ Continues(w, Executing)
  <2>1. CASE Finish(w)
    BY <2>1, FinishEnds DEF IInv
  <2>2. ASSUME NEW place \in Executing, GotoSeeing(w, place, state)
        PROVE  Continues(w, Executing)
    BY <2>2, GotoContinues DEF IInv, Continues
  <2> QED BY <2>1, <2>2
<1> QED BY <1>2, <1>3, DecidedDecision

\* The steps after a decision that change no row.
LEMMA QuietDecided ==
  ASSUME IInv, NEW w \in Workers, session[w].at \in Executing,
         \/ Finish(w)
         \/ \E place \in Executing : Goto(w, place)
         \/ \E place \in Executing : \E result : GotoWith(w, place, result),
         UNCHANGED <<tasks, approvals>>
  PROVE  DecisionInv'
<1>1. session[w].at \in Decided /\ ~At(w, "idle") /\ session[w].at # "mark_rejected"
  BY DEF Decided, Executing
<1>2. OnlyRow(session[w].task)
  BY <1>1, SameRows DEF IInv
<1>3. Ends(w) \/ Continues(w, Executing)
  <2>1. CASE Finish(w)
    BY <2>1, FinishEnds DEF IInv
  <2>2. ASSUME NEW place \in Executing, Goto(w, place)
        PROVE  Continues(w, Executing)
    BY <2>2, GotoContinues DEF IInv, Continues
  <2>3. ASSUME NEW place \in Executing, NEW result, GotoWith(w, place, result)
        PROVE  Continues(w, Executing)
    BY <2>3, GotoContinues DEF IInv, Continues
  <2> QED BY <2>1, <2>2, <2>3
<1> QED BY <1>1, <1>2, <1>3, DecidedDecision

LEMMA OpenAttemptDecision ==
  ASSUME IInv, NEW w \in Workers, OpenAttempt(w)
  PROVE  DecisionInv'
<1>1. /\ session[w].at \in Decided /\ ~At(w, "idle")
      /\ session[w].at # "mark_rejected"
      /\ UNCHANGED <<tasks, approvals, tickets>>
  BY DEF OpenAttempt, Decided, Executing
<1>2. OnlyRow(session[w].task)
  BY <1>1, SameRows DEF IInv
<1>3. Continues(w, Executing)
  <2>1. session \in [Workers -> Session] /\ session[w] \in Session
    BY DEF IInv, TypeInv, SessionsOK
  <2>2. session' = [session EXCEPT ![w].at = "find", ![w].attempt = Len(attempts) + 1]
    BY DEF OpenAttempt
  <2>3. "find" \in Executing
    BY DEF Executing
  <2> QED BY <2>1, <2>2, <2>3 DEF Continues, OnlySession, Session
<1> QED BY <1>1, <1>2, <1>3, DecidedDecision

LEMMA RecordReceiptDecision ==
  ASSUME IInv, NEW w \in Workers, RecordReceipt(w)
  PROVE  DecisionInv'
<1> DEFINE row == [TaskRow(w) EXCEPT !.receipt = session[w].result]
<1>1. /\ session[w].at \in Decided /\ ~At(w, "idle")
      /\ session[w].at # "mark_rejected"
      /\ Store(w, row, TaskRow(w).state)
      /\ Goto(w, "complete")
      /\ UNCHANGED <<approvals, attempts, tickets>>
  BY DEF RecordReceipt, Decided, Executing
<1>2. /\ TaskRow(w) \in Row /\ TaskRow(w).state \in TaskState
      /\ session[w].result \in Receipt \cup {NoValue}
  BY <1>1, InProgress DEF IInv, Session
<1>3. /\ row \in Row
      /\ row.user = TaskRow(w).user
      /\ row.project = TaskRow(w).project
      /\ row.action = TaskRow(w).action
      /\ row.preview = TaskRow(w).preview
  BY <1>2 DEF Row
<1> HIDE DEF row
<1>4. /\ OnlyRow(session[w].task)
      /\ tasks'[session[w].task].preview = TaskRow(w).preview
  BY <1>1, <1>2, <1>3, StoreRow DEF IInv
<1>5. Continues(w, Executing)
  <2>1. Continues(w, {"complete"})
    BY <1>1, GotoContinues DEF IInv
  <2> QED BY <2>1 DEF Continues, Executing
<1> QED BY <1>1, <1>4, <1>5, DecidedDecision

\* The actions of an execution, and the end of an approval or a rejection.
LEMMA ExecutionDecision ==
  ASSUME IInv, NEW w \in Workers,
         \/ MarkApproved(w) \/ MarkRejected(w) \/ BeginExecution(w)
         \/ RecordSuccess(w) \/ RecordTimeout(w) \/ RecordReconciled(w)
         \/ CompleteAction(w)
  PROVE  DecisionInv'
<1>1. CASE MarkApproved(w)
  BY <1>1, StoreDecided DEF MarkApproved, Transition, AfterApproval, Decided,
                            Executing, TaskState
<1>2. CASE MarkRejected(w)
  BY <1>2, StoreDecided DEF MarkRejected, Transition, Decided, TaskState
<1>3. CASE BeginExecution(w)
  BY <1>3, StoreDecided DEF BeginExecution, Transition, Decided, Executing, TaskState
<1>4. CASE RecordSuccess(w)
  BY <1>4, StoreDecided DEF RecordSuccess, Decided, Executing, TaskState
<1>5. CASE RecordTimeout(w)
  BY <1>5, StoreDecided DEF RecordTimeout, Decided, Executing, TaskState
<1>6. CASE RecordReconciled(w)
  BY <1>6, StoreDecided DEF RecordReconciled, Decided, Executing, TaskState
<1>7. CASE CompleteAction(w)
  BY <1>7, StoreDecided DEF CompleteAction, Transition, Decided, Executing, TaskState
<1> QED BY <1>1, <1>2, <1>3, <1>4, <1>5, <1>6, <1>7

LEMMA QuietExecutionDecision ==
  ASSUME IInv, NEW w \in Workers,
         \/ PauseAfterApproval(w) \/ LogResume(w) \/ FindTicket(w)
         \/ MissTicket(w) \/ CountTickets(w) \/ InsertTicket(w)
         \/ FindAfterTimeout(w) \/ ConfirmTicket(w) \/ ExecutionFails(w)
  PROVE  DecisionInv'
<1>1. CASE PauseAfterApproval(w)
  BY <1>1, QuietDecided DEF PauseAfterApproval, Executing
<1>2. CASE LogResume(w)
  BY <1>2, QuietDecided DEF LogResume, Executing
<1>3. CASE FindTicket(w)
  BY <1>3, QuietDecided DEF FindTicket, Executing
<1>4. CASE MissTicket(w)
  BY <1>4, QuietDecided DEF MissTicket, Executing
<1>5. CASE CountTickets(w)
  BY <1>5, QuietDecided DEF CountTickets, Executing
<1>6. CASE FindAfterTimeout(w)
  BY <1>6, QuietDecided DEF FindAfterTimeout, Executing
<1>7. CASE ConfirmTicket(w)
  BY <1>7, QuietDecided DEF ConfirmTicket, Executing
<1>8. CASE InsertTicket(w)
  BY <1>8, QuietDecided DEF InsertTicket, AfterInsert, Executing
<1>9. CASE ExecutionFails(w)
  BY <1>9, QuietDecided DEF ExecutionFails, ExecutionRefused, Executing
<1> QED BY <1>1, <1>2, <1>3, <1>4, <1>5, <1>6, <1>7, <1>8, <1>9

-----------------------------------------------------------------------------
(* The decision governs the effects.                                       *)

LEMMA ArriveDecision ==
  ASSUME IInv, NEW w \in Workers, Arrive(w)
  PROVE  DecisionInv'
<1>1. CASE \E t \in Tasks, u \in Users, p \in Projects,
              action \in RequestedAction, research \in BOOLEAN, mode \in Modes :
             CreateTask(w, t, u, p, action, research, mode)
  BY <1>1, CreateTaskDecision
<1>2. CASE \E t \in Tasks, actor \in Users : Approve(w, t, actor)
  BY <1>2, ReadDecision DEF Approve
<1>3. CASE \E t \in Tasks, actor \in Users : Reject(w, t, actor)
  BY <1>3, ReadDecision DEF Reject
<1>4. CASE \E t \in Tasks, actor \in Users : Resume(w, t, actor)
  BY <1>4, ReadDecision DEF Resume
<1> QED BY <1>1, <1>2, <1>3, <1>4 DEF Arrive

LEMMA ProceedDecision ==
  ASSUME IInv, NEW w \in Workers, Proceed(w), TypeInv'
  PROVE  DecisionInv'
<1>1. CreateContract(w) \/ GatherDocuments(w) \/ StartAnalysis(w) => DecisionInv'
  BY AdvanceDecision DEF CreateContract, GatherDocuments, StartAnalysis, Creating,
                         CreationState
<1>2. StoreApproval(w) \/ StoreRejection(w) => DecisionInv'
  BY StoreDecisionDecision DEF StoreApproval, StoreRejection
<1>3. DecisionConflict(w) => DecisionInv'
  BY EndDecision, FinishEnds DEF DecisionConflict, IInv
<1> QED
  BY <1>1, <1>2, <1>3, RetrieveDocumentsDecision, AnalyzeDecision,
     ProposalReadyDecision, EndCreationDecision, ExecutionDecision,
     QuietExecutionDecision, OpenAttemptDecision, RecordReceiptDecision
  DEF Proceed

LEMMA InitIInv == Init => IInv
<1> SUFFICES ASSUME Init PROVE IInv
  OBVIOUS
<1>1. \A w \in Workers : session[w].at = "idle"
  BY DEF Init, Idle
<1>2. CreatorsAlone /\ DecidersAuthorized /\ PendingUntilDecided
  BY <1>1 DEF CreatorsAlone, DecidersAuthorized, PendingUntilDecided, Creating,
              Deciding
<1>3. ExecutorsGranted /\ DeniersDenied
  BY <1>1 DEF ExecutorsGranted, DeniersDenied, Executing
<1>4. RowsJustified
  BY DEF Init, RowsJustified
<1>5. OneDecision /\ DecisionsAuthorized
  BY DEF Init, OneDecision, DecisionsAuthorized
<1> QED BY <1>2, <1>3, <1>4, <1>5, InitTypeInv DEF IInv, DecisionInv

LEMMA StutterDecision ==
  ASSUME IInv, UNCHANGED vars
  PROVE  DecisionInv'
<1>1. \A t : /\ DecisionTaken(t)' = DecisionTaken(t)
             /\ Granted(t)' = Granted(t)
             /\ Denied(t)' = Denied(t)
  BY DEF vars, DecisionTaken, Granted, Denied
<1>2. CreatorsAlone' /\ DecidersAuthorized' /\ PendingUntilDecided'
  BY <1>1 DEF vars, IInv, DecisionInv, CreatorsAlone, DecidersAuthorized,
              PendingUntilDecided
<1>3. ExecutorsGranted' /\ DeniersDenied' /\ RowsJustified'
  BY <1>1 DEF vars, IInv, DecisionInv, ExecutorsGranted, DeniersDenied, RowsJustified
<1>4. OneDecision' /\ DecisionsAuthorized'
  BY DEF vars, IInv, DecisionInv, OneDecision, DecisionsAuthorized
<1> QED BY <1>2, <1>3, <1>4 DEF DecisionInv

LEMMA NextIInv ==
  IInv /\ [Next]_vars => IInv'
<1> SUFFICES ASSUME IInv, [Next]_vars PROVE IInv'
  OBVIOUS
<1>1. TypeInv'
  BY NextType DEF IInv
<1>2. DecisionInv'
  <2>1. CASE Next
    <3>1. PICK w \in Workers :
            Arrive(w) \/ Proceed(w) \/ CreationFails(w) \/ RequestDies(w)
      BY <2>1 DEF Next
    <3>2. RequestDies(w) => DecisionInv'
      BY EndDecision, FinishEnds DEF RequestDies, IInv
    <3> QED BY <1>1, <3>1, <3>2, ArriveDecision, ProceedDecision,
               EndCreationDecision
  <2>2. CASE UNCHANGED vars
    BY <2>2, StutterDecision
  <2> QED BY <2>1, <2>2
<1> QED BY <1>1, <1>2 DEF IInv

\* At every moment each place a request can stand at goes with the stored
\* decision that has to come before it, although the request read its task
\* long ago: DecisionInv, with the types, is inductive.
THEOREM DecisionInvariant == Spec => []IInv
  BY InitIInv, NextIInv, PTL DEF Spec

=============================================================================
