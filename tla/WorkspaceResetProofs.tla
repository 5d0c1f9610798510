------------------------- MODULE WorkspaceResetProofs -------------------------
(***************************************************************************)
(* Theorems about WorkspaceReset for any number of tasks, requests and     *)
(* resets.                                                                 *)
(*                                                                         *)
(* The proofs look at the workspace without what a reset has erased: the   *)
(* tasks whose rows are in the database, the decisions about them and the  *)
(* requests that work on them.  Of this live part every step is one of     *)
(* TaskWorkflow, where a reset begins a new behaviour and a request that   *)
(* finds the tables dropped dies, or it is a step from outside: an         *)
(* overtaken request can still write an attempt and a ticket, and nothing  *)
(* else that anybody looks at.  Therefore the invariants of the workflow   *)
(* hold of the live part (LiveInv), by the theorems about the workflow.    *)
(* HeldInv says what the overtaken requests still know of their tasks.     *)
(***************************************************************************)
EXTENDS WorkspaceReset, FiniteSetTheorems, TLAPS

liveTasks == [t \in Tasks |-> IF t \in erased THEN NoValue ELSE tasks[t]]
liveApprovals == {a \in approvals : a.task \notin erased}
liveSession == [w \in Workers |-> IF Overtaken(w) THEN Idle ELSE session[w]]

L == INSTANCE TicketGateProofs WITH
       Faults <- Faults \cup {"crash"},
       tasks <- liveTasks, approvals <- liveApprovals, session <- liveSession

LiveInv ==
  /\ L!IInv
  /\ L!TruthInv
  /\ L!OriginalInv
  /\ L!CountsAreBehind
  /\ L!ExecutorsApproved

\* What a request holds on to after its task was erased.
Holds(w) ==
  /\ session[w] \in Session
  /\ session[w].at # "idle"
  /\ session[w].at \in L!InGateway => TaskRow(w).preview # NoValue
  /\ session[w].at \in L!Numbered => session[w].result # NoValue
  /\ session[w].at \in Executing => TaskRow(w).state \in ApprovedStates

HeldInv ==
  /\ tasks = [t \in Tasks |-> tasks[t]]
  /\ session = [w \in Workers |-> session[w]]
  /\ erased \subseteq Tasks
  /\ \A t \in erased : tasks[t] \in Row
  /\ \A w \in Workers : Overtaken(w) => Holds(w)
  /\ \A w \in Workers : At(w, "idle") => session[w] = Idle

\* The task that a ticket comes from.
Proposes(t, k) ==
  /\ Exists(t)
  /\ tasks[t].preview = k
  /\ IF t \in erased THEN tasks[t].state \in ApprovedStates ELSE L!Granted(t)

TicketsProposed == \A x \in tickets : \E t \in Tasks : Proposes(t, x.key)

ResetInv == LiveInv /\ HeldInv
-----------------------------------------------------------------------------
(* The assumptions and constants of the live part.                         *)

LEMMA LivePolicy ==
  /\ DOMAIN UserTenant = Users
  /\ DOMAIN ProjectTenant = Projects
  /\ Memberships \subseteq L!Membership
  /\ \A m, n \in Memberships :
       m.user = n.user /\ m.project = n.project => m = n
  BY PolicyAssumption DEF Membership, L!Membership

LEMMA LiveAssumption ==
  /\ Modes \subseteq L!FailureMode
  /\ Faults \cup {"crash"} \subseteq {"error", "crash"}
  /\ NoValue \notin Tasks \cup Contents \cup Users \cup L!TaskState
  /\ NoValue \notin L!Key
  /\ NoValue \notin L!Receipt
  /\ NoValue \notin L!Row
  BY WorkflowAssumption
  DEF FailureMode, L!FailureMode, TaskState, L!TaskState, Key, L!Key, Receipt, L!Receipt,
      Row, L!Row, RequestedAction, L!RequestedAction, RiskLane, L!RiskLane

\* The live part shares every definition that reads no variable.
LEMMA SameTypes ==
  /\ L!Key = Key
  /\ L!Receipt = Receipt
  /\ L!Row = Row
  /\ L!Attempt = Attempt
  /\ L!Approval = Approval
  /\ L!Session = Session
  /\ L!Idle = Idle
  /\ L!RequestedAction = RequestedAction
<1>1. /\ L!Key = Key
      /\ L!Receipt = Receipt
      /\ L!Idle = Idle
      /\ L!RequestedAction = RequestedAction
      /\ L!RiskLane = RiskLane
      /\ L!TaskState = TaskState
      /\ L!Approval = Approval
  BY DEF Key, L!Key, Receipt, L!Receipt, Idle, L!Idle, RequestedAction, L!RequestedAction,
         RiskLane, L!RiskLane, TaskState, L!TaskState, Approval, L!Approval
<1>2. L!Place = Place
  BY DEF Place, L!Place, Creating, L!Creating, Deciding, L!Deciding, Executing, L!Executing
<1>3. L!Row = Row
  BY <1>1 DEF Row, L!Row
<1>4. L!Attempt = Attempt
  BY <1>1 DEF Attempt, L!Attempt
<1>5. L!Session = Session
  BY <1>1, <1>2 DEF Session, L!Session
<1> QED BY <1>1, <1>3, <1>4, <1>5

LEMMA SamePolicy ==
  /\ \A u, p : L!CanRead(u, p) <=> CanRead(u, p)
  /\ \A u, p : L!CanWrite(u, p) <=> CanWrite(u, p)
  /\ \A u, p : L!CanApprove(u, p) <=> CanApprove(u, p)
  /\ L!ApprovedStates = ApprovedStates
  BY DEF CanRead, L!CanRead, CanWrite, L!CanWrite, CanApprove, L!CanApprove, MembershipsOf,
         L!MembershipsOf, ApprovedStates, L!ApprovedStates

LEMMA SamePlaces ==
  /\ L!Creating = Creating
  /\ L!Deciding = Deciding
  /\ L!Executing = Executing
  BY DEF Creating, L!Creating, Deciding, L!Deciding, Executing, L!Executing
-----------------------------------------------------------------------------
(* What a request that is not overtaken reads and writes in the live part. *)

LEMMA LiveReads ==
  ASSUME ResetInv, NEW w \in Workers, ~Overtaken(w)
  PROVE  /\ liveSession[w] = session[w]
         /\ session[w] \in Session
         /\ ~At(w, "idle") => session[w].task \in Tasks \ erased
         /\ ~At(w, "idle") => L!TaskRow(w) = TaskRow(w) /\ TaskRow(w) # NoValue
         /\ ~At(w, "idle") =>
              (L!DecisionTaken(session[w].task) <=> DecisionTaken(session[w].task))
<1>1. liveSession[w] = session[w]
  BY DEF liveSession
<1>2. L!TypeInv
  BY DEF ResetInv, LiveInv, L!IInv
<1>3. session[w] \in Session
  BY <1>1, <1>2, SameTypes DEF L!TypeInv, L!SessionsOK
<1>4. ~At(w, "idle") => session[w].task \in Tasks /\ L!TaskRow(w) # NoValue
  BY <1>1, <1>2, LivePolicy, LiveAssumption, L!SessionFacts DEF At
<1>5. ~At(w, "idle") => L!TaskRow(w) = TaskRow(w)
  BY <1>1, <1>4 DEF L!TaskRow, TaskRow, liveTasks, Overtaken
<1>6. ~At(w, "idle") =>
         (L!DecisionTaken(session[w].task) <=> DecisionTaken(session[w].task))
  BY DEF L!DecisionTaken, DecisionTaken, liveApprovals, Overtaken
<1> QED BY <1>1, <1>3, <1>4, <1>5, <1>6 DEF Overtaken

LEMMA LiveSessionSet ==
  ASSUME HeldInv, UNCHANGED erased, NEW w \in Workers, ~Overtaken(w),
         NEW s, s.task \notin erased, session' = [session EXCEPT ![w] = s]
  PROVE  /\ liveSession' = [liveSession EXCEPT ![w] = s]
         /\ session' = [v \in Workers |-> session'[v]]
         /\ session'[w] = s
         /\ \A v \in Workers \ {w} : session'[v] = session[v]
<1>1. session = [v \in Workers |-> session[v]]
  BY DEF HeldInv
<1>2. /\ session'[w] = s
      /\ \A v \in Workers \ {w} : session'[v] = session[v]
      /\ session' = [v \in Workers |-> session'[v]]
  BY <1>1
<1>3. \A v \in Workers :
        (IF session'[v].task \in erased THEN Idle ELSE session'[v])
          = IF v = w THEN s
            ELSE IF session[v].task \in erased THEN Idle ELSE session[v]
  BY <1>2
<1> QED BY <1>2, <1>3 DEF liveSession, Overtaken

LEMMA LiveGoto ==
  ASSUME ResetInv, UNCHANGED erased, NEW w \in Workers, ~Overtaken(w), ~At(w, "idle"),
         NEW place, NEW state, NEW result
  PROVE  /\ Goto(w, place) => L!Goto(w, place)
         /\ GotoSeeing(w, place, state) => L!GotoSeeing(w, place, state)
         /\ GotoWith(w, place, result) => L!GotoWith(w, place, result)
         /\ Finish(w) => L!Finish(w)
<1>1. /\ liveSession[w] = session[w]
      /\ session[w] \in Session
      /\ session[w].task \in Tasks \ erased
  BY LiveReads
<1>2. HeldInv
  BY DEF ResetInv
<1>3. ASSUME Goto(w, place) PROVE L!Goto(w, place)
  <2> DEFINE s == [session[w] EXCEPT !.at = place]
  <2>1. s.task = session[w].task
    BY <1>1 DEF Session
  <2>2. session' = [session EXCEPT ![w] = s]
    BY <1>3 DEF Goto
  <2> HIDE DEF s
  <2>3. liveSession' = [liveSession EXCEPT ![w] = s]
    BY <1>1, <1>2, <2>1, <2>2, LiveSessionSet
  <2> QED BY <1>1, <2>3 DEF s, L!Goto
<1>4. ASSUME GotoSeeing(w, place, state) PROVE L!GotoSeeing(w, place, state)
  <2> DEFINE s == [session[w] EXCEPT !.at = place, !.seen = state]
  <2>1. s.task = session[w].task
    BY <1>1 DEF Session
  <2>2. session' = [session EXCEPT ![w] = s]
    BY <1>2, <1>4 DEF GotoSeeing, HeldInv
  <2> HIDE DEF s
  <2>3. liveSession' = [liveSession EXCEPT ![w] = s]
    BY <1>1, <1>2, <2>1, <2>2, LiveSessionSet
  <2> QED BY <1>1, <2>3 DEF s, L!GotoSeeing, liveSession
<1>5. ASSUME GotoWith(w, place, result) PROVE L!GotoWith(w, place, result)
  <2> DEFINE s == [session[w] EXCEPT !.at = place, !.result = result]
  <2>1. s.task = session[w].task
    BY <1>1 DEF Session
  <2>2. session' = [session EXCEPT ![w] = s]
    BY <1>2, <1>5 DEF GotoWith, HeldInv
  <2> HIDE DEF s
  <2>3. liveSession' = [liveSession EXCEPT ![w] = s]
    BY <1>1, <1>2, <2>1, <2>2, LiveSessionSet
  <2> QED BY <1>1, <2>3 DEF s, L!GotoWith, liveSession
<1>6. ASSUME Finish(w) PROVE L!Finish(w)
  <2>1. Idle.task \notin erased /\ L!Idle = Idle
    BY <1>2, SameTypes, WorkflowAssumption DEF Idle, HeldInv
  <2> QED BY <1>2, <1>6, <2>1, LiveSessionSet DEF Finish, L!Finish
<1> QED BY <1>3, <1>4, <1>5, <1>6

LEMMA LiveBegin ==
  ASSUME ResetInv, UNCHANGED erased, NEW w \in Workers, ~Overtaken(w),
         NEW t \in Tasks \ erased, NEW actor, NEW place, NEW seen,
         Begin(w, t, actor, place, seen)
  PROVE  L!Begin(w, t, actor, place, seen)
<1> DEFINE s == [at |-> place, task |-> t, actor |-> actor, seen |-> seen,
                 attempt |-> 0, result |-> NoValue]
<1>1. s.task \notin erased
  OBVIOUS
<1>2. session' = [session EXCEPT ![w] = s]
  BY DEF Begin
<1> HIDE DEF s
<1>3. liveSession' = [liveSession EXCEPT ![w] = s]
  BY <1>1, <1>2, LiveSessionSet DEF ResetInv
<1> QED BY <1>3 DEF s, L!Begin

LEMMA LiveStore ==
  ASSUME ResetInv, UNCHANGED erased, NEW w \in Workers, ~Overtaken(w), ~At(w, "idle"),
         NEW row, NEW state, NEW actor
  PROVE  /\ Store(w, row, state) => L!Store(w, row, state)
         /\ Transition(w, row, state, actor) => L!Transition(w, row, state, actor)
<1>1. liveSession[w] = session[w] /\ session[w].task \in Tasks \ erased
  BY LiveReads
<1>2. ASSUME Store(w, row, state) PROVE L!Store(w, row, state)
  <2> DEFINE t == session[w].task
             new == [row EXCEPT !.state = state]
  <2>1. /\ tasks = [u \in Tasks |-> tasks[u]]
        /\ tasks' = [tasks EXCEPT ![t] = new]
    BY <1>2 DEF ResetInv, HeldInv, Store
  <2>2. liveSession[w].task = t /\ t \in Tasks \ erased
    BY <1>1
  <2> HIDE DEF t, new
  <2>3. \A u \in Tasks :
          (IF u \in erased THEN NoValue ELSE tasks'[u])
            = IF u = t THEN new ELSE IF u \in erased THEN NoValue ELSE tasks[u]
    BY <2>1, <2>2
  <2>4. liveTasks' = [liveTasks EXCEPT ![t] = new]
    BY <2>3 DEF liveTasks
  <2> QED BY <2>2, <2>4 DEF L!Store, new
<1>3. Transition(w, row, state, actor) => L!Transition(w, row, state, actor)
  BY <1>1, <1>2 DEF Transition, L!Transition
<1> QED BY <1>2, <1>3

LEMMA LiveSame ==
  ASSUME UNCHANGED erased
  PROVE  /\ tasks' = tasks => liveTasks' = liveTasks
         /\ approvals' = approvals => liveApprovals' = liveApprovals
         /\ session' = session => liveSession' = liveSession
  BY DEF liveTasks, liveApprovals, liveSession, Overtaken
-----------------------------------------------------------------------------
(* The step of such a request is one of the live part.                     *)

LEMMA LiveCreation ==
  ASSUME ResetInv, UNCHANGED erased, NEW w \in Workers, ~Overtaken(w), ~At(w, "idle")
  PROVE  /\ CreateContract(w) => L!CreateContract(w)
         /\ GatherDocuments(w) => L!GatherDocuments(w)
         /\ StartAnalysis(w) => L!StartAnalysis(w)
         /\ \A flagged \in BOOLEAN :
              RetrieveDocuments(w, flagged) => L!RetrieveDocuments(w, flagged)
         /\ \A content \in Contents, verdict \in {"passed", "failed"} :
              Analyze(w, content, verdict) => L!Analyze(w, content, verdict)
         /\ RejectAnalysis(w) => L!RejectAnalysis(w)
         /\ ProposalReady(w) => L!ProposalReady(w)
         /\ ConcludeCreation(w) => L!ConcludeCreation(w)
         /\ CreationFails(w) => L!CreationFails(w)
<1>1. /\ liveSession[w] = session[w]
      /\ L!TaskRow(w) = TaskRow(w)
      /\ \A place : L!At(w, place) <=> At(w, place)
  BY LiveReads DEF At, L!At
<1>2. \A from, state, to : Advance(w, from, state, to) => L!Advance(w, from, state, to)
  BY <1>1, LiveGoto, LiveStore, LiveSame DEF Advance, L!Advance
<1>3. /\ CreateContract(w) => L!CreateContract(w)
      /\ GatherDocuments(w) => L!GatherDocuments(w)
      /\ StartAnalysis(w) => L!StartAnalysis(w)
  BY <1>2 DEF CreateContract, L!CreateContract, GatherDocuments, L!GatherDocuments,
              StartAnalysis, L!StartAnalysis
<1>4. \A flagged \in BOOLEAN :
        RetrieveDocuments(w, flagged) => L!RetrieveDocuments(w, flagged)
  BY <1>1, LiveGoto, LiveSame DEF RetrieveDocuments, L!RetrieveDocuments, Record, L!Record
<1>5. \A content \in Contents, verdict \in {"passed", "failed"} :
        Analyze(w, content, verdict) => L!Analyze(w, content, verdict)
  BY <1>1, LiveGoto, LiveStore, LiveSame DEF Analyze, L!Analyze
<1>6. RejectAnalysis(w) => L!RejectAnalysis(w)
  BY <1>1, LiveGoto, LiveStore, LiveSame DEF RejectAnalysis, L!RejectAnalysis
<1>7. ProposalReady(w) => L!ProposalReady(w)
  BY <1>1, LiveGoto, LiveStore, LiveSame
  DEF ProposalReady, L!ProposalReady, PreviewOf, L!PreviewOf
<1>8. ConcludeCreation(w) => L!ConcludeCreation(w)
  BY <1>1, LiveGoto, LiveStore, LiveSame
  DEF ConcludeCreation, L!ConcludeCreation, Conclusion, L!Conclusion
<1>9. CreationFails(w) => L!CreationFails(w)
  BY <1>1, LiveGoto, LiveStore, LiveSame, SamePlaces
  DEF CreationFails, L!CreationFails, Log, L!Log, Record, L!Record
<1> QED BY <1>3, <1>4, <1>5, <1>6, <1>7, <1>8, <1>9

LEMMA LiveDecision ==
  ASSUME ResetInv, UNCHANGED erased, NEW w \in Workers, ~Overtaken(w), ~At(w, "idle")
  PROVE  /\ StoreApproval(w) => L!StoreApproval(w)
         /\ StoreRejection(w) => L!StoreRejection(w)
         /\ DecisionConflict(w) => L!DecisionConflict(w)
         /\ MarkApproved(w) => L!MarkApproved(w)
         /\ MarkRejected(w) => L!MarkRejected(w)
         /\ PauseAfterApproval(w) => L!PauseAfterApproval(w)
         /\ LogResume(w) => L!LogResume(w)
<1>1. /\ liveSession[w] = session[w]
      /\ L!TaskRow(w) = TaskRow(w)
      /\ \A place : L!At(w, place) <=> At(w, place)
      /\ L!DecisionTaken(session[w].task) <=> DecisionTaken(session[w].task)
      /\ session[w].task \notin erased
  BY LiveReads DEF At, L!At
<1>2. \A type, actor : Log(w, type, actor) => L!Log(w, type, actor)
  BY <1>1 DEF Log, L!Log, Record, L!Record
<1>3. ASSUME NEW place, NEW decision, NEW type, NEW next,
             StoreDecision(w, place, decision, type, next)
      PROVE  L!StoreDecision(w, place, decision, type, next)
  <2> DEFINE a == [task |-> session[w].task, decision |-> decision,
                   actor |-> session[w].actor]
  <2>1. a.task \notin erased /\ approvals' = approvals \cup {a}
    BY <1>1, <1>3 DEF StoreDecision
  <2> HIDE DEF a
  <2>2. liveApprovals' = liveApprovals \cup {a}
    BY <2>1 DEF liveApprovals
  <2> QED BY <1>1, <1>2, <1>3, <2>2, LiveGoto, LiveSame
          DEF a, StoreDecision, L!StoreDecision
<1>4. /\ StoreApproval(w) => L!StoreApproval(w)
      /\ StoreRejection(w) => L!StoreRejection(w)
  BY <1>3 DEF StoreApproval, L!StoreApproval, StoreRejection, L!StoreRejection
<1>5. DecisionConflict(w) => L!DecisionConflict(w)
  BY <1>1, LiveGoto, LiveSame DEF DecisionConflict, L!DecisionConflict
<1>6. MarkApproved(w) => L!MarkApproved(w)
  BY <1>1, LiveGoto, LiveStore, LiveSame
  DEF MarkApproved, L!MarkApproved, AfterApproval, L!AfterApproval
<1>7. MarkRejected(w) => L!MarkRejected(w)
  BY <1>1, LiveGoto, LiveStore, LiveSame DEF MarkRejected, L!MarkRejected
<1>8. PauseAfterApproval(w) => L!PauseAfterApproval(w)
  BY <1>1, <1>2, LiveGoto, LiveSame DEF PauseAfterApproval, L!PauseAfterApproval
<1>9. LogResume(w) => L!LogResume(w)
  BY <1>1, <1>2, LiveGoto, LiveSame DEF LogResume, L!LogResume
<1> QED BY <1>4, <1>5, <1>6, <1>7, <1>8, <1>9

LEMMA LiveExecution ==
  ASSUME ResetInv, UNCHANGED erased, NEW w \in Workers, ~Overtaken(w), ~At(w, "idle")
  PROVE  /\ BeginExecution(w) => L!BeginExecution(w)
         /\ OpenAttempt(w) => L!OpenAttempt(w)
         /\ RecordSuccess(w) => L!RecordSuccess(w)
         /\ RecordTimeout(w) => L!RecordTimeout(w)
         /\ RecordReconciled(w) => L!RecordReconciled(w)
         /\ RecordReceipt(w) => L!RecordReceipt(w)
         /\ CompleteAction(w) => L!CompleteAction(w)
         /\ ExecutionFails(w) => L!ExecutionFails(w)
         /\ GatewayAdmits(w) <=> L!GatewayAdmits(w)
<1>1. /\ liveSession[w] = session[w]
      /\ L!TaskRow(w) = TaskRow(w)
      /\ \A place : L!At(w, place) <=> At(w, place)
      /\ session[w] \in Session
      /\ session[w].task \notin erased
      /\ session = [v \in Workers |-> session[v]]
  BY LiveReads DEF At, L!At, ResetInv, HeldInv
<1>2. /\ \A type, actor : Log(w, type, actor) => L!Log(w, type, actor)
      /\ \A status : SetAttempt(w, status) => L!SetAttempt(w, status)
  BY <1>1 DEF Log, L!Log, Record, L!Record, SetAttempt, L!SetAttempt
<1>3. BeginExecution(w) => L!BeginExecution(w)
  BY <1>1, LiveGoto, LiveStore, LiveSame DEF BeginExecution, L!BeginExecution
<1>4. GatewayAdmits(w) <=> L!GatewayAdmits(w)
  BY <1>1, SamePolicy
  DEF GatewayAdmits, L!GatewayAdmits, ToolPermitted, L!ToolPermitted, JiraTool, L!JiraTool,
      AllowedTools, L!AllowedTools, ApprovalPolicy, L!ApprovalPolicy
<1>5. ASSUME OpenAttempt(w) PROVE L!OpenAttempt(w)
  <2> DEFINE s == [session[w] EXCEPT !.at = "find", !.attempt = Len(attempts) + 1]
  <2>1. s.task \notin erased
    BY <1>1 DEF Session
  <2>2. session' = [session EXCEPT ![w] = s]
    BY <1>1, <1>5 DEF OpenAttempt
  <2> HIDE DEF s
  <2>3. liveSession' = [liveSession EXCEPT ![w] = s]
    BY <2>1, <2>2, LiveSessionSet DEF ResetInv
  <2>4. liveSession' = [liveSession EXCEPT ![w].at = "find",
                                           ![w].attempt = Len(attempts) + 1]
    BY <1>1, <2>3 DEF s, liveSession
  <2> QED BY <1>1, <1>2, <1>4, <1>5, <2>4, LiveSame
          DEF OpenAttempt, L!OpenAttempt, NewAttempt, L!NewAttempt
<1>6. /\ RecordSuccess(w) => L!RecordSuccess(w)
      /\ RecordTimeout(w) => L!RecordTimeout(w)
      /\ RecordReconciled(w) => L!RecordReconciled(w)
  BY <1>1, <1>2, LiveGoto, LiveStore, LiveSame
  DEF RecordSuccess, L!RecordSuccess, RecordTimeout, L!RecordTimeout,
      RecordReconciled, L!RecordReconciled
<1>7. RecordReceipt(w) => L!RecordReceipt(w)
  BY <1>1, <1>2, LiveGoto, LiveStore, LiveSame DEF RecordReceipt, L!RecordReceipt
<1>8. CompleteAction(w) => L!CompleteAction(w)
  BY <1>1, LiveGoto, LiveStore, LiveSame DEF CompleteAction, L!CompleteAction
<1>9. ExecutionFails(w) => L!ExecutionFails(w)
  <2>1. ExecutionRefused(w) => L!ExecutionRefused(w)
    BY <1>1, <1>4
    DEF ExecutionRefused, L!ExecutionRefused, Clashes, L!Clashes, FindByKey, L!FindByKey,
        Confirmed, L!Confirmed
  <2> QED BY <1>1, <1>2, <2>1, LiveGoto, LiveSame DEF ExecutionFails, L!ExecutionFails
<1> QED BY <1>3, <1>4, <1>5, <1>6, <1>7, <1>8, <1>9

LEMMA LiveTicket ==
  ASSUME ResetInv, UNCHANGED erased, NEW w \in Workers, ~Overtaken(w), ~At(w, "idle")
  PROVE  /\ FindTicket(w) => L!FindTicket(w)
         /\ MissTicket(w) => L!MissTicket(w)
         /\ CountTickets(w) => L!CountTickets(w)
         /\ InsertTicket(w) => L!InsertTicket(w)
         /\ FindAfterTimeout(w) => L!FindAfterTimeout(w)
         /\ ConfirmTicket(w) => L!ConfirmTicket(w)
         /\ RequestDies(w) \/ RequestOvertaken(w) => L!RequestDies(w)
<1>1. /\ liveSession[w] = session[w]
      /\ L!TaskRow(w) = TaskRow(w)
      /\ \A place : L!At(w, place) <=> At(w, place)
  BY LiveReads DEF At, L!At
<1>2. /\ \A k : L!FindByKey(k) = FindByKey(k)
      /\ \A k, n : L!Clashes(k, n) <=> Clashes(k, n)
      /\ \A k, n : L!AddTicket(k, n) <=> AddTicket(k, n)
      /\ L!Confirmed(w) <=> Confirmed(w)
  BY <1>1 DEF FindByKey, L!FindByKey, Clashes, L!Clashes, AddTicket, L!AddTicket,
              Confirmed, L!Confirmed
<1>3. /\ FindTicket(w) => L!FindTicket(w)
      /\ FindAfterTimeout(w) => L!FindAfterTimeout(w)
  BY <1>1, <1>2, LiveGoto, LiveSame
  DEF FindTicket, L!FindTicket, FindAfterTimeout, L!FindAfterTimeout, Replay, L!Replay,
      Found, L!Found
<1>4. /\ MissTicket(w) => L!MissTicket(w)
      /\ ConfirmTicket(w) => L!ConfirmTicket(w)
  BY <1>1, <1>2, LiveGoto, LiveSame
  DEF MissTicket, L!MissTicket, ConfirmTicket, L!ConfirmTicket
<1>5. CountTickets(w) => L!CountTickets(w)
  <2>1. L!NextNumber = NextNumber
    BY DEF L!NextNumber, NextNumber, L!NumberAfter, NumberAfter, L!Cardinality, Cardinality
  <2> QED BY <1>1, <2>1, LiveGoto, LiveSame
          DEF CountTickets, L!CountTickets, Found, L!Found
<1>6. InsertTicket(w) => L!InsertTicket(w)
  BY <1>1, <1>2, LiveGoto, LiveSame
  DEF InsertTicket, L!InsertTicket, AfterInsert, L!AfterInsert
<1>7. RequestDies(w) \/ RequestOvertaken(w) => L!RequestDies(w)
  BY <1>1, LiveGoto, LiveSame DEF RequestDies, RequestOvertaken, L!RequestDies
<1> QED BY <1>3, <1>4, <1>5, <1>6, <1>7

LEMMA LiveArrival ==
  ASSUME ResetInv, UNCHANGED erased, NEW w \in Workers, At(w, "idle"),
         Arrive(w), session'[w].task \notin erased
  PROVE  L!Arrive(w)
<1>1. /\ ~Overtaken(w) /\ liveSession[w] = session[w]
      /\ L!At(w, "idle")
      /\ session = [v \in Workers |-> session[v]]
  BY DEF ResetInv, HeldInv, Holds, At, L!At, liveSession
<1>2. \A t : (\E actor, place, seen : Begin(w, t, actor, place, seen)) => t \notin erased
  BY <1>1 DEF Begin
<1>3. ASSUME NEW t \in Tasks, NEW u \in Users, NEW p \in Projects,
             NEW action \in RequestedAction, NEW research \in BOOLEAN, NEW mode \in Modes,
             CreateTask(w, t, u, p, action, research, mode)
      PROVE  L!CreateTask(w, t, u, p, action, research, mode)
  <2> DEFINE lane == ChooseLane(research, action)
             row == NewRow(u, p, action, lane, mode)
  <2>1. t \notin erased
    BY <1>2, <1>3 DEF CreateTask
  <2>2. lane = L!ChooseLane(research, action) /\ row = L!NewRow(u, p, action, lane, mode)
    BY DEF ChooseLane, L!ChooseLane, NewRow, L!NewRow
  <2>3. /\ tasks = [v \in Tasks |-> tasks[v]]
        /\ tasks' = [tasks EXCEPT ![t] = row]
        /\ MayCreate(u, p, lane)
        /\ tasks[t] = NoValue
    BY <1>3 DEF ResetInv, HeldInv, CreateTask, Exists
  <2>4. L!MayCreate(u, p, lane)
    BY <2>3, SamePolicy DEF MayCreate, L!MayCreate
  <2> HIDE DEF lane, row
  <2>5. \A v \in Tasks :
          (IF v \in erased THEN NoValue ELSE tasks'[v])
            = IF v = t THEN row ELSE IF v \in erased THEN NoValue ELSE tasks[v]
    BY <2>1, <2>3
  <2>6. liveTasks' = [liveTasks EXCEPT ![t] = row] /\ liveTasks[t] = NoValue
    BY <2>1, <2>3, <2>5 DEF liveTasks
  <2>7. L!Begin(w, t, u, "contract", "RECEIVED")
    BY <1>1, <1>3, <2>1, LiveBegin DEF CreateTask
  <2> QED BY <1>1, <1>3, <2>1, <2>2, <2>4, <2>6, <2>7, LiveSame
          DEF CreateTask, L!CreateTask, L!Exists, Record, L!Record, row, lane
<1>4. ASSUME NEW t \in Tasks, NEW actor \in Users, NEW state, NEW place,
             ReadForDecision(w, t, actor, state, place)
      PROVE  L!ReadForDecision(w, t, actor, state, place)
  <2>1. t \notin erased
    BY <1>2, <1>4 DEF ReadForDecision
  <2>2. liveTasks[t] = tasks[t]
    BY <2>1 DEF liveTasks
  <2>3. L!Begin(w, t, actor, place, state)
    BY <1>1, <1>4, <2>1, LiveBegin DEF ReadForDecision
  <2> QED BY <1>1, <1>4, <2>2, <2>3, SamePolicy, LiveSame
          DEF ReadForDecision, L!ReadForDecision, MayDecide, L!MayDecide, Exists, L!Exists
<1> QED BY <1>3, <1>4, SameTypes
        DEF Arrive, L!Arrive, Approve, L!Approve, Reject, L!Reject, Resume, L!Resume
\* What a request, overtaken or not, can change: its own session and row, and
\* the row of a new task.
LEMMA OwnEffects ==
  ASSUME HeldInv, NEW w \in Workers, session[w] \in Session,
         Arrive(w) \/ Proceed(w) \/ CreationFails(w) \/ RequestOvertaken(w)
  PROVE  /\ session' = [v \in Workers |-> session'[v]]
         /\ \A v \in Workers \ {w} : session'[v] = session[v]
         /\ Arrive(w) \/ session'[w] = Idle \/ session'[w].task = session[w].task
         /\ tasks' = [t \in Tasks |-> tasks'[t]]
         /\ \A t \in erased : session[w].task # t => tasks'[t] = tasks[t]
         /\ Arrive(w) <=> At(w, "idle")
         /\ At(w, "idle") => ~Proceed(w) /\ ~CreationFails(w) /\ ~RequestOvertaken(w)
<1> DEFINE Own == /\ session' = [v \in Workers |-> session'[v]]
                  /\ \A v \in Workers \ {w} : session'[v] = session[v]
           Stays == session'[w] = Idle \/ session'[w].task = session[w].task
           Rows == /\ tasks' = [t \in Tasks |-> tasks'[t]]
                   /\ \A t \in erased : session[w].task # t => tasks'[t] = tasks[t]
<1>1. /\ session = [v \in Workers |-> session[v]]
      /\ tasks = [t \in Tasks |-> tasks[t]]
      /\ \A t \in erased : t \in Tasks /\ tasks[t] # NoValue
  BY WorkflowAssumption DEF HeldInv
<1>2. /\ \A place : Goto(w, place) => Own /\ Stays
      /\ \A place, state : GotoSeeing(w, place, state) => Own /\ Stays
      /\ \A place, result : GotoWith(w, place, result) => Own /\ Stays
      /\ Finish(w) => Own /\ Stays
  BY <1>1 DEF Goto, GotoSeeing, GotoWith, Finish, Session
<1>3. \A t, actor, place, seen : Begin(w, t, actor, place, seen) => Own
  BY <1>1 DEF Begin
<1>4. /\ \A row, state : Store(w, row, state) => Rows
      /\ \A row, state, actor : Transition(w, row, state, actor) => Rows
      /\ tasks' = tasks => Rows
  BY <1>1 DEF Store, Transition
<1>5. Arrive(w) => Own /\ Rows
  <2>1. ASSUME NEW t \in Tasks, NEW u \in Users, NEW p \in Projects,
               NEW action \in RequestedAction, NEW research \in BOOLEAN,
               NEW mode \in Modes, CreateTask(w, t, u, p, action, research, mode)
        PROVE  Own /\ Rows
    <3>1. Own
      BY <1>3, <2>1 DEF CreateTask
    <3>2. t \notin erased
      BY <1>1, <2>1 DEF CreateTask, Exists
    <3>3. \E row : tasks' = [tasks EXCEPT ![t] = row]
      BY <2>1 DEF CreateTask
    <3> QED BY <1>1, <3>1, <3>2, <3>3
  <2>2. (\E t, actor, state, place : ReadForDecision(w, t, actor, state, place)) => Own /\ Rows
    BY <1>3, <1>4 DEF ReadForDecision
  <2> QED BY <2>1, <2>2 DEF Arrive, Approve, Reject, Resume
<1> HIDE DEF Own, Stays, Rows
<1>6. ASSUME \/ CreateContract(w) \/ GatherDocuments(w) \/ StartAnalysis(w)
             \/ \E flagged \in BOOLEAN : RetrieveDocuments(w, flagged)
             \/ \E content \in Contents, verdict \in {"passed", "failed"} :
                  Analyze(w, content, verdict)
             \/ RejectAnalysis(w) \/ ProposalReady(w) \/ ConcludeCreation(w)
             \/ CreationFails(w)
      PROVE  Own /\ Stays /\ Rows
  BY <1>2, <1>4, <1>6
  DEF CreateContract, GatherDocuments, StartAnalysis, Advance, RetrieveDocuments, Analyze,
      RejectAnalysis, ProposalReady, ConcludeCreation, CreationFails
<1>7. ASSUME \/ StoreApproval(w) \/ StoreRejection(w) \/ DecisionConflict(w)
             \/ MarkApproved(w) \/ MarkRejected(w) \/ PauseAfterApproval(w)
             \/ LogResume(w)
      PROVE  Own /\ Stays /\ Rows
  BY <1>2, <1>4, <1>7
  DEF StoreApproval, StoreRejection, StoreDecision, DecisionConflict, MarkApproved,
      MarkRejected, PauseAfterApproval, LogResume
<1>8. ASSUME \/ BeginExecution(w) \/ FindTicket(w) \/ MissTicket(w) \/ CountTickets(w)
             \/ InsertTicket(w) \/ RecordSuccess(w) \/ RecordTimeout(w)
             \/ FindAfterTimeout(w) \/ RecordReconciled(w) \/ ConfirmTicket(w)
             \/ RecordReceipt(w) \/ CompleteAction(w) \/ ExecutionFails(w)
             \/ RequestOvertaken(w)
      PROVE  Own /\ Stays /\ Rows
  BY <1>2, <1>4, <1>8
  DEF BeginExecution, FindTicket, MissTicket, CountTickets, InsertTicket, RecordSuccess,
      RecordTimeout, FindAfterTimeout, RecordReconciled, ConfirmTicket, RecordReceipt,
      CompleteAction, ExecutionFails, RequestOvertaken
<1>9. OpenAttempt(w) => Own /\ Stays /\ Rows
  BY <1>1, <1>4 DEF OpenAttempt, Session, Own, Stays
<1>10. Arrive(w) => At(w, "idle")
  BY DEF Arrive, CreateTask, Approve, Reject, Resume, ReadForDecision
<1>11. At(w, "idle") => ~Proceed(w) /\ ~CreationFails(w) /\ ~RequestOvertaken(w)
  BY DEF At, Proceed, CreateContract, GatherDocuments, StartAnalysis, Advance,
         RetrieveDocuments, Analyze, RejectAnalysis, ProposalReady, ConcludeCreation,
         StoreApproval, StoreRejection, StoreDecision, DecisionConflict, MarkApproved,
         MarkRejected, PauseAfterApproval, LogResume, BeginExecution, OpenAttempt,
         FindTicket, MissTicket, CountTickets, InsertTicket, RecordSuccess, RecordTimeout,
         FindAfterTimeout, RecordReconciled, ConfirmTicket, RecordReceipt, CompleteAction,
         ExecutionFails, ExecutionRefused, CreationFails, Creating, RequestOvertaken
<1>12. Proceed(w) => Own /\ Stays /\ Rows
  BY <1>6, <1>7, <1>8, <1>9 DEF Proceed
<1> QED BY <1>5, <1>6, <1>8, <1>10, <1>11, <1>12 DEF Own, Stays, Rows

\* A request takes a step.
RequestStep(w) ==
  \/ ArriveInWorkspace(w) \/ ProceedInWorkspace(w) \/ CreationFailsInWorkspace(w)
  \/ RequestOvertaken(w)

LEMMA LiveStep ==
  ASSUME ResetInv, NEW w \in Workers, ~Overtaken(w), RequestStep(w)
  PROVE  /\ L!Step(w) /\ L!Frame(w) /\ HeldInv'
         /\ UNCHANGED erased
         /\ \A t \in erased : tasks'[t] = tasks[t]
<1>1. /\ UNCHANGED erased
      /\ \/ Arrive(w) /\ session'[w].task \notin erased
         \/ Proceed(w) \/ CreationFails(w) \/ RequestOvertaken(w)
  BY DEF RequestStep, ArriveInWorkspace, ProceedInWorkspace, CreationFailsInWorkspace,
         RequestOvertaken, resetVars
<1>2. /\ HeldInv /\ session[w] \in Session /\ liveSession[w] = session[w]
      /\ L!TypeInv
      /\ Idle.task \notin erased
  BY LiveReads, WorkflowAssumption DEF ResetInv, LiveInv, L!IInv, HeldInv, Idle
<1>3. /\ session' = [v \in Workers |-> session'[v]]
      /\ \A v \in Workers \ {w} : session'[v] = session[v]
      /\ Arrive(w) \/ session'[w] = Idle \/ session'[w].task = session[w].task
      /\ tasks' = [t \in Tasks |-> tasks'[t]]
      /\ \A t \in erased : session[w].task # t => tasks'[t] = tasks[t]
      /\ Arrive(w) <=> At(w, "idle")
      /\ At(w, "idle") => ~Proceed(w) /\ ~CreationFails(w) /\ ~RequestOvertaken(w)
  BY <1>1, <1>2, OwnEffects
<1>4. L!Step(w)
  <2>1. CASE At(w, "idle")
    <3>1. Arrive(w) /\ session'[w].task \notin erased
      BY <1>1, <1>3, <2>1
    <3> QED BY <1>1, <2>1, <3>1, LiveArrival DEF L!Step
  <2>2. CASE ~At(w, "idle")
    <3>1. Proceed(w) => L!Proceed(w)
      BY <1>1, <2>2, LiveCreation, LiveDecision, LiveExecution, LiveTicket
      DEF Proceed, L!Proceed
    <3> QED BY <1>1, <1>3, <2>2, <3>1, LiveCreation, LiveTicket DEF L!Step
  <2> QED BY <2>1, <2>2
<1>5. L!Frame(w)
  BY <1>2, <1>4, LivePolicy, LiveAssumption, L!NextFrame
<1>6. session'[w].task \notin erased
  <2>1. CASE At(w, "idle")
    BY <1>1, <1>3, <2>1
  <2>2. CASE ~At(w, "idle")
    BY <1>2, <1>3, <2>2 DEF Overtaken
  <2> QED BY <2>1, <2>2
<1>7. At(w, "idle")' => session'[w] = Idle
  <2>1. liveSession'[w] = session'[w]
    BY <1>1, <1>6 DEF liveSession, Overtaken
  <2> QED BY <1>5, <2>1, SameTypes DEF L!Frame, L!SessionStep, L!Moves, At
<1>8. \A t \in erased : tasks'[t] = tasks[t]
  BY <1>3 DEF Overtaken
<1>9. HeldInv'
  BY <1>1, <1>2, <1>3, <1>6, <1>7, <1>8 DEF HeldInv, Holds, Overtaken, At, TaskRow
<1> QED BY <1>1, <1>4, <1>5, <1>8, <1>9
-----------------------------------------------------------------------------
(* The step of an overtaken request is one from outside.                   *)

LEMMA OvertakenProceeds ==
  ASSUME HeldInv, NEW w \in Workers, Overtaken(w), RequestStep(w)
  PROVE  /\ UNCHANGED erased
         /\ ~At(w, "idle")
         /\ \/ \E flagged \in BOOLEAN : RetrieveDocuments(w, flagged)
            \/ StoreApproval(w) \/ StoreRejection(w) \/ DecisionConflict(w)
            \/ PauseAfterApproval(w) \/ LogResume(w) \/ OpenAttempt(w)
            \/ FindTicket(w) \/ MissTicket(w) \/ CountTickets(w) \/ InsertTicket(w)
            \/ FindAfterTimeout(w) \/ ConfirmTicket(w) \/ ExecutionFails(w)
            \/ RequestOvertaken(w)
<1>1. ~At(w, "idle") /\ session[w] \in Session
  BY DEF HeldInv, Holds, At
<1>2. ~ArriveInWorkspace(w)
  BY <1>1, OwnEffects DEF ArriveInWorkspace
<1>3. session[w].at \in UpdatesTask =>
        ~ProceedInWorkspace(w) /\ ~CreationFailsInWorkspace(w)
  BY DEF ProceedInWorkspace, CreationFailsInWorkspace
<1>4. ASSUME \/ CreateContract(w) \/ GatherDocuments(w) \/ StartAnalysis(w)
             \/ \E content \in Contents, verdict \in {"passed", "failed"} :
                  Analyze(w, content, verdict)
             \/ RejectAnalysis(w) \/ ProposalReady(w) \/ ConcludeCreation(w)
             \/ MarkApproved(w) \/ MarkRejected(w) \/ BeginExecution(w)
             \/ RecordSuccess(w) \/ RecordTimeout(w) \/ RecordReconciled(w)
             \/ RecordReceipt(w) \/ CompleteAction(w)
      PROVE  session[w].at \in UpdatesTask
  BY <1>4
  DEF CreateContract, GatherDocuments, StartAnalysis, Advance, Analyze, RejectAnalysis,
      ProposalReady, ConcludeCreation, MarkApproved, MarkRejected, BeginExecution,
      RecordSuccess, RecordTimeout, RecordReconciled, RecordReceipt, CompleteAction,
      UpdatesTask, At
<1>5. /\ UNCHANGED erased
      /\ ProceedInWorkspace(w) => Proceed(w)
      /\ ~CreationFailsInWorkspace(w)
  BY <1>2 DEF RequestStep, ProceedInWorkspace, CreationFailsInWorkspace, RequestOvertaken,
              resetVars
<1>6. ProceedInWorkspace(w) \/ RequestOvertaken(w)
  BY <1>2, <1>5 DEF RequestStep
<1> QED BY <1>1, <1>3, <1>4, <1>5, <1>6 DEF Proceed

LEMMA OvertakenHolds ==
  ASSUME ResetInv, NEW w \in Workers, Overtaken(w), RequestStep(w)
  PROVE  tasks' = tasks /\ (session'[w] = Idle \/ Holds(w)')
<1>1. Holds(w) /\ session[w] \in Session /\ session = [v \in Workers |-> session[v]]
  BY DEF ResetInv, HeldInv, Holds
<1> DEFINE s == session'[w]
<1>2. ASSUME tasks' = tasks,
             s \in Session,
             s.task = session[w].task,
             s.at # "idle",
             s.at \in L!InGateway => session[w].at \in L!InGateway,
             s.at \in L!Numbered => s.result # NoValue,
             s.at \in Executing => session[w].at \in Executing
      PROVE  Holds(w)'
  BY <1>1, <1>2 DEF Holds, TaskRow
<1>3. ASSUME NEW place \in Place, Goto(w, place), tasks' = tasks,
             place # "idle",
             place \in L!InGateway => session[w].at \in L!InGateway,
             place \in L!Numbered => session[w].at \in L!Numbered,
             place \in Executing => session[w].at \in Executing
      PROVE  Holds(w)'
  <2>1. /\ s \in Session /\ s.at = place /\ s.task = session[w].task
        /\ s.result = session[w].result
    BY <1>1, <1>3 DEF Goto, Session
  <2> HIDE DEF s
  <2> QED BY <1>1, <1>2, <1>3, <2>1 DEF Holds
<1>4. ASSUME NEW place \in {"succeed", "insert", "reconciled"}, NEW num \in Nat,
             NEW replayed \in BOOLEAN, NEW reconciled \in BOOLEAN, tasks' = tasks,
             GotoWith(w, place, Found(num, replayed, reconciled)),
             session[w].at \in {"find", "count", "reconcile"}
      PROVE  Holds(w)'
  <2> DEFINE result == Found(num, replayed, reconciled)
  <2>1. result \in Receipt /\ result # NoValue
    BY WorkflowAssumption DEF Found, Receipt
  <2> HIDE DEF result
  <2>2. s \in Session /\ s.at = place /\ s.task = session[w].task /\ s.result = result
    BY <1>1, <1>4, <2>1 DEF GotoWith, Session, Place, Executing, result
  <2> HIDE DEF s
  <2> QED BY <1>2, <1>4, <2>1, <2>2 DEF L!InGateway, Executing
<1>5. CASE \/ \E flagged \in BOOLEAN : RetrieveDocuments(w, flagged)
           \/ StoreApproval(w) \/ StoreRejection(w) \/ LogResume(w)
           \/ MissTicket(w) \/ InsertTicket(w) \/ ConfirmTicket(w)
  <2>1. /\ tasks' = tasks
        /\ \/ session[w].at = "retrieve" /\ Goto(w, "verify")
           \/ session[w].at = "approve" /\ Goto(w, "mark_approved")
           \/ session[w].at = "reject" /\ Goto(w, "mark_rejected")
           \/ session[w].at = "resume" /\ Goto(w, "execute")
           \/ session[w].at = "find" /\ Goto(w, "count")
           \/ session[w].at = "insert" /\ Goto(w, "succeed")
           \/ session[w].at = "insert" /\ Goto(w, "timed_out")
           \/ session[w].at = "confirm" /\ Goto(w, "receipt")
    BY <1>5
    DEF RetrieveDocuments, StoreApproval, StoreRejection, StoreDecision, LogResume,
        MissTicket, InsertTicket, AfterInsert, ConfirmTicket, At
  <2> USE DEF Place, Creating, Deciding, Executing, L!InGateway, L!Numbered, L!Attempted
  <2> QED BY <1>3, <2>1
<1>6. CASE FindTicket(w) \/ CountTickets(w) \/ FindAfterTimeout(w)
  <2>1. L!TypeInv
    BY DEF ResetInv, LiveInv, L!IInv
  <2>2. \A k : \A x \in FindByKey(k) : x.num \in Nat
    BY <2>1 DEF L!TypeInv, L!TypeOK, FindByKey
  <2>3. NextNumber \in Nat
    <3>1. IsFiniteSet(tickets)
      BY <2>1 DEF L!TypeInv, L!IsFiniteSet, IsFiniteSet
    <3> QED BY <3>1, FS_CardinalityType DEF NextNumber, NumberAfter
  <2> QED BY <1>4, <1>6, <2>2, <2>3
          DEF FindTicket, CountTickets, FindAfterTimeout, Replay, At
<1>7. CASE OpenAttempt(w)
  <2>1. /\ tasks' = tasks /\ session[w].at = "open"
        /\ s \in Session /\ s.at = "find" /\ s.task = session[w].task
    <3>1. Len(attempts) + 1 \in Nat
      BY DEF ResetInv, LiveInv, L!IInv, L!TypeInv, L!TypeOK
    <3> QED BY <1>1, <1>7, <3>1 DEF OpenAttempt, Session, Place, Executing, At
  <2> HIDE DEF s
  <2> QED BY <1>2, <2>1 DEF Executing, L!InGateway, L!Numbered, L!Attempted
<1>8. CASE \/ DecisionConflict(w) \/ PauseAfterApproval(w) \/ ExecutionFails(w)
           \/ RequestOvertaken(w)
  BY <1>1, <1>8
  DEF DecisionConflict, PauseAfterApproval, ExecutionFails, RequestOvertaken, Finish
<1>9. tasks' = tasks
  BY <1>5, <1>6, <1>7, <1>8, OvertakenProceeds
  DEF ResetInv, RetrieveDocuments, StoreApproval, StoreRejection, StoreDecision, LogResume,
      MissTicket, InsertTicket, ConfirmTicket, FindTicket, CountTickets, FindAfterTimeout,
      OpenAttempt, DecisionConflict, PauseAfterApproval, ExecutionFails, RequestOvertaken
<1> QED BY <1>5, <1>6, <1>7, <1>8, <1>9, OvertakenProceeds DEF ResetInv
LEMMA OvertakenStep ==
  ASSUME ResetInv, NEW w \in Workers, Overtaken(w), RequestStep(w)
  PROVE  /\ L!Outside
         /\ HeldInv'
         /\ UNCHANGED <<tasks, erased>>
         /\ tickets' = tickets \/ InsertTicket(w)
<1>1. /\ tasks' = tasks
      /\ session'[w] = Idle \/ Holds(w)'
  BY OvertakenHolds
<1>2. /\ UNCHANGED erased
      /\ ~At(w, "idle")
      /\ \/ \E flagged \in BOOLEAN : RetrieveDocuments(w, flagged)
         \/ StoreApproval(w) \/ StoreRejection(w) \/ DecisionConflict(w)
         \/ PauseAfterApproval(w) \/ LogResume(w) \/ OpenAttempt(w)
         \/ FindTicket(w) \/ MissTicket(w) \/ CountTickets(w) \/ InsertTicket(w)
         \/ FindAfterTimeout(w) \/ ConfirmTicket(w) \/ ExecutionFails(w)
         \/ RequestOvertaken(w)
  BY OvertakenProceeds DEF ResetInv
<1>3. Holds(w) /\ HeldInv /\ L!TypeInv
  BY DEF ResetInv, HeldInv, LiveInv, L!IInv
<1>4. /\ session' = [v \in Workers |-> session'[v]]
      /\ \A v \in Workers \ {w} : session'[v] = session[v]
      /\ session'[w] = Idle \/ session'[w].task = session[w].task
  <2>1. Proceed(w) \/ RequestOvertaken(w)
    BY <1>2 DEF Proceed
  <2> QED BY <1>2, <1>3, <2>1, OwnEffects DEF Holds
<1>5. HeldInv'
  <2>1. Idle.task \notin erased
    BY <1>3, WorkflowAssumption DEF Idle, HeldInv
  <2>2. ASSUME NEW v \in Workers, Overtaken(v)' PROVE Holds(v)'
    <3>1. CASE v = w
      BY <1>1, <1>2, <2>1, <2>2, <3>1 DEF Overtaken
    <3>2. CASE v # w
      BY <1>1, <1>2, <1>3, <1>4, <2>2, <3>2 DEF Overtaken, HeldInv, Holds, TaskRow
    <3> QED BY <3>1, <3>2
  <2>3. \A v \in Workers : At(v, "idle")' => session'[v] = Idle
    BY <1>1, <1>3, <1>4 DEF HeldInv, Holds, At
  <2> QED BY <1>1, <1>2, <1>3, <1>4, <2>2, <2>3 DEF HeldInv
<1>6. UNCHANGED <<liveTasks, liveSession>>
  <2>1. \A v \in Workers :
          (IF session'[v].task \in erased THEN Idle ELSE session'[v])
            = IF session[v].task \in erased THEN Idle ELSE session[v]
    BY <1>4 DEF Overtaken
  <2> QED BY <1>1, <1>2, <2>1 DEF liveTasks, liveSession, Overtaken
<1>7. liveApprovals' = liveApprovals
  <2>1. CASE StoreApproval(w) \/ StoreRejection(w)
    <3>1. PICK decision : approvals' = approvals \cup
                 {[task |-> session[w].task, decision |-> decision,
                   actor |-> session[w].actor]}
      BY <2>1 DEF StoreApproval, StoreRejection, StoreDecision
    <3> QED BY <1>2, <3>1 DEF liveApprovals, Overtaken
  <2>2. CASE ~StoreApproval(w) /\ ~StoreRejection(w)
    <3>1. approvals' = approvals
      BY <1>2, <2>2
      DEF RetrieveDocuments, LogResume, MissTicket, InsertTicket, ConfirmTicket,
          FindTicket, CountTickets, FindAfterTimeout, OpenAttempt, DecisionConflict,
          PauseAfterApproval, ExecutionFails, RequestOvertaken
    <3> QED BY <1>2, <3>1 DEF liveApprovals
  <2> QED BY <2>1, <2>2
<1>8. tickets' = tickets \/ InsertTicket(w)
  BY <1>2
  DEF RetrieveDocuments, StoreApproval, StoreRejection, StoreDecision, LogResume,
      MissTicket, ConfirmTicket, FindTicket, CountTickets, FindAfterTimeout,
      OpenAttempt, DecisionConflict, PauseAfterApproval, ExecutionFails, RequestOvertaken
<1>a. session[w].task \in Tasks /\ TaskRow(w) \in Row
  BY <1>3 DEF HeldInv, TaskRow, Overtaken
<1>9. InsertTicket(w) => \E k \in L!Key, n \in Nat : ~L!Clashes(k, n) /\ L!AddTicket(k, n)
  <2> SUFFICES ASSUME InsertTicket(w)
               PROVE  \E k \in Key, n \in Nat : ~Clashes(k, n) /\ AddTicket(k, n)
    BY SameTypes DEF Clashes, L!Clashes, AddTicket, L!AddTicket
  <2>1. session[w].at \in L!InGateway /\ session[w].at \in L!Numbered
    BY DEF InsertTicket, At, L!InGateway, L!Numbered, L!Attempted
  <2>2. TaskRow(w).preview \in Key
    BY <1>3, <1>a, <2>1 DEF Holds, Row
  <2>3. session[w].result.num \in Nat
    BY <1>3, <2>1 DEF Holds, Session, Receipt
  <2> QED BY <2>2, <2>3 DEF InsertTicket
<1>10. attempts' \in Seq(L!Attempt) /\ Len(attempts) <= Len(attempts')
  <2>0. attempts \in Seq(Attempt) /\ L!Attempt = Attempt
    BY <1>3, SameTypes DEF L!TypeInv, L!TypeOK
  <2>1. CASE OpenAttempt(w)
    <3> DEFINE x == NewAttempt(session[w].task, TaskRow(w).preview)
    <3>1. session[w].at \in L!InGateway
      BY <2>1 DEF OpenAttempt, At, L!InGateway
    <3>2. TaskRow(w).preview \in Key
      BY <1>3, <1>a, <3>1 DEF Holds, Row
    <3>3. x \in Attempt
      BY <1>a, <3>2 DEF NewAttempt, Attempt
    <3>4. attempts' = Append(attempts, x)
      BY <2>1 DEF OpenAttempt
    <3> HIDE DEF x
    <3> QED BY <2>0, <3>3, <3>4
  <2>2. CASE SetAttempt(w, "FAILED_UNCONFIRMED")
    <3> DEFINE i == session[w].attempt
    <3>1. CASE i \in DOMAIN attempts
      <4>1. [attempts[i] EXCEPT !.status = "FAILED_UNCONFIRMED"] \in Attempt
        <5>1. attempts[i] \in Attempt
          BY <2>0, <3>1
        <5> QED BY <5>1 DEF Attempt
      <4>2. attempts' = [attempts EXCEPT ![i] =
                           [attempts[i] EXCEPT !.status = "FAILED_UNCONFIRMED"]]
        BY <2>2 DEF SetAttempt
      <4> QED BY <2>0, <3>1, <4>1, <4>2
    <3>2. CASE i \notin DOMAIN attempts
      <4>1. attempts' = attempts
        BY <2>0, <2>2, <3>2 DEF SetAttempt
      <4> QED BY <2>0, <4>1
    <3> QED BY <3>1, <3>2
  <2>3. CASE attempts' = attempts
    BY <2>0, <2>3
  <2>4. OpenAttempt(w) \/ SetAttempt(w, "FAILED_UNCONFIRMED") \/ attempts' = attempts
    BY <1>2
    DEF RetrieveDocuments, StoreApproval, StoreRejection, StoreDecision, LogResume,
        MissTicket, InsertTicket, ConfirmTicket, FindTicket, CountTickets,
        FindAfterTimeout, DecisionConflict, PauseAfterApproval, ExecutionFails,
        RequestOvertaken
  <2> QED BY <2>1, <2>2, <2>3, <2>4
<1> QED BY <1>1, <1>2, <1>5, <1>6, <1>7, <1>8, <1>9, <1>10 DEF L!Outside
-----------------------------------------------------------------------------
(* ResetInv is inductive.                                                  *)

LEMMA LiveKept ==
  ASSUME LiveInv, NEW w \in Workers, L!Step(w)
  PROVE  LiveInv'
<1>1. L!IInv /\ L!TypeInv /\ L!TruthInv /\ L!OriginalInv
  BY DEF LiveInv, L!IInv
<1>2. L!Next
  BY DEF L!Next, L!Step
<1> USE LivePolicy, LiveAssumption
<1>3. L!IInv'
  BY <1>1, <1>2, L!NextIInv
<1>4. L!TruthInv'
  BY <1>1, <1>2, L!NextTruth
<1>5. L!OriginalInv'
  BY <1>1, <1>2, L!NextOriginal
<1>6. L!CountsAreBehind'
  BY <1>1, L!BehindKept DEF LiveInv
<1>7. L!ExecutorsApproved'
  BY <1>1, L!ApprovedKept DEF LiveInv
<1> QED BY <1>3, <1>4, <1>5, <1>6, <1>7 DEF LiveInv

LEMMA LiveBegins == L!Init => LiveInv
<1> SUFFICES ASSUME L!Init PROVE LiveInv
  OBVIOUS
<1> USE LivePolicy, LiveAssumption
<1>1. L!IInv
  BY L!InitIInv
<1>2. L!TruthInv
  BY L!InitTruth
<1>3. L!OriginalInv
  BY L!InitOriginal
<1>4. L!CountsAreBehind /\ L!ExecutorsApproved
  BY DEF L!Init, L!CountsAreBehind, L!ExecutorsApproved, L!Executing,
         L!Idle, L!At
<1> QED BY <1>1, <1>2, <1>3, <1>4 DEF LiveInv

LEMMA InitReset ==
  ASSUME InitWithReset
  PROVE  ResetInv
<1>1. L!Init
  BY SameTypes DEF InitWithReset, Init, L!Init, liveTasks, liveApprovals, liveSession,
                   Overtaken
<1>2. HeldInv
  BY DEF InitWithReset, Init, HeldInv, Overtaken, Idle
<1> QED BY <1>1, <1>2, LiveBegins DEF ResetInv

\* A reset leaves nothing live, and lets the requests in progress hold on to
\* what they have read.
LEMMA DropKept ==
  ASSUME ResetInv, DropTables
  PROVE  ResetInv'
<1>1. /\ approvals' = {} /\ attempts' = <<>> /\ audit' = {} /\ tickets' = {}
      /\ erased' = {t \in Tasks : tasks[t] # NoValue}
      /\ UNCHANGED <<tasks, session>>
  BY DEF DropTables, Exists
<1>2. /\ HeldInv /\ L!TypeInv /\ L!ExecutorsApproved
      /\ \A t \in erased : t \in Tasks /\ tasks[t] # NoValue
  BY WorkflowAssumption DEF ResetInv, LiveInv, L!IInv, HeldInv
<1>3. \A t \in erased' : tasks[t] \in Row
  <2> SUFFICES ASSUME NEW t \in Tasks, t \notin erased, tasks[t] # NoValue
               PROVE  tasks[t] \in Row
    BY <1>1, <1>2 DEF HeldInv
  <2>1. liveTasks[t] = tasks[t]
    BY DEF liveTasks
  <2> QED BY <1>2, <2>1, SameTypes DEF L!TypeInv, L!TypeOK
<1>4. ASSUME NEW w \in Workers, ~Overtaken(w), ~At(w, "idle")
      PROVE  Holds(w) /\ session[w].task \in erased'
  <2>1. /\ liveSession[w] = session[w]
        /\ session[w] \in Session
        /\ session[w].task \in Tasks \ erased
        /\ L!TaskRow(w) = TaskRow(w) /\ TaskRow(w) # NoValue
    BY <1>4, LiveReads
  <2>2. L!Sound(liveSession[w], liveTasks, Len(attempts))
    BY <1>2 DEF L!TypeInv, L!SessionsOK
  <2>3. /\ session[w].at \in L!InGateway => TaskRow(w).preview # NoValue
        /\ session[w].at \in L!Numbered => session[w].result # NoValue
    BY <2>1, <2>2 DEF L!Sound, L!TaskRow
  <2>4. session[w].at \in Executing => TaskRow(w).state \in ApprovedStates
    BY <1>2, <2>1, SamePlaces, SamePolicy DEF L!ExecutorsApproved
  <2> QED BY <1>1, <1>4, <2>1, <2>3, <2>4 DEF Holds, At, TaskRow
<1>5. ASSUME NEW w \in Workers
      PROVE  session[w] = Idle \/ (Holds(w) /\ session[w].task \in erased')
  <2>1. CASE Overtaken(w)
    BY <1>1, <1>2, <2>1 DEF HeldInv, Overtaken
  <2>2. CASE At(w, "idle")
    BY <1>2, <2>2 DEF HeldInv
  <2> QED BY <1>4, <2>1, <2>2
<1>6. HeldInv'
  <2>1. \A w \in Workers : Overtaken(w)' => Holds(w)'
    <3>1. Idle.task \notin erased'
      BY <1>1, WorkflowAssumption DEF Idle
    <3> QED BY <1>1, <1>5, <3>1 DEF Overtaken, Holds, TaskRow
  <2> QED BY <1>1, <1>2, <1>3, <2>1 DEF HeldInv, At
<1>7. L!Init'
  <2>1. liveTasks' = [t \in Tasks |-> NoValue]
    BY <1>1 DEF liveTasks
  <2>2. liveSession' = [w \in Workers |-> L!Idle]
    BY <1>1, <1>5, SameTypes DEF liveSession, Overtaken
  <2> QED BY <1>1, <2>1, <2>2 DEF L!Init, liveApprovals
<1>8. LiveInv'
  BY <1>7, LiveBegins, PTL
<1> QED BY <1>6, <1>8 DEF ResetInv
LEMMA NextCases ==
  ASSUME [NextWithReset]_<<vars, resetVars>>
  PROVE  \/ DropTables
         \/ UNCHANGED <<vars, erased>>
         \/ \E w \in Workers : RequestStep(w)
  BY DEF NextWithReset, CreateTables, SeedTables, RequestStep, resetVars

LEMMA NextReset ==
  ResetInv /\ [NextWithReset]_<<vars, resetVars>> => ResetInv'
<1> SUFFICES ASSUME ResetInv, [NextWithReset]_<<vars, resetVars>> PROVE ResetInv'
  OBVIOUS
<1>1. CASE UNCHANGED <<vars, erased>>
  <2>1. UNCHANGED <<liveTasks, liveApprovals, liveSession, attempts, audit, tickets>>
    BY <1>1, LiveSame DEF vars
  <2>2. L!IInv' /\ L!TruthInv' /\ L!OriginalInv'
    BY <2>1, LivePolicy, LiveAssumption, L!NextIInv, L!NextTruth, L!NextOriginal
    DEF L!vars, ResetInv, LiveInv
  <2>3. L!CountsAreBehind' /\ L!ExecutorsApproved'
    BY <2>1 DEF L!CountsAreBehind, L!ExecutorsApproved, L!At, L!TaskRow, L!Cardinality,
                ResetInv, LiveInv
  <2>4. HeldInv'
    BY <1>1 DEF vars, ResetInv, HeldInv, Overtaken, Holds, At, TaskRow
  <2> QED BY <2>2, <2>3, <2>4 DEF ResetInv, LiveInv
<1>2. ASSUME NEW w \in Workers, RequestStep(w) PROVE ResetInv'
  <2>1. CASE ~Overtaken(w)
    BY <1>2, <2>1, LiveStep, LiveKept DEF ResetInv
  <2>2. CASE Overtaken(w)
    <3>1. L!Outside /\ HeldInv'
      BY <1>2, <2>2, OvertakenStep
    <3>2. LiveInv'
      BY <3>1, LivePolicy, LiveAssumption, L!OutsideKeeps DEF ResetInv, LiveInv
    <3> QED BY <3>1, <3>2 DEF ResetInv
  <2> QED BY <2>1, <2>2
<1> QED BY <1>1, <1>2, DropKept, NextCases

\* Whatever is reset while requests are in progress: the live part of the
\* workspace satisfies the invariants of the workflow, and an overtaken request
\* that executes holds the copy of a task that was approved.
THEOREM ResetInvariant == SpecWithReset => []ResetInv
  BY InitReset, NextReset, PTL DEF SpecWithReset

-----------------------------------------------------------------------------
(* The properties.                                                         *)

LEMMA ProposedKept ==
  ResetInv /\ TicketsProposed /\ [NextWithReset]_<<vars, resetVars>> => TicketsProposed'
<1> SUFFICES ASSUME ResetInv, TicketsProposed, [NextWithReset]_<<vars, resetVars>>
             PROVE  TicketsProposed'
  OBVIOUS
<1>1. CASE DropTables
  BY <1>1 DEF DropTables, TicketsProposed
<1>2. CASE UNCHANGED <<vars, erased>>
  BY <1>2 DEF vars, TicketsProposed, Proposes, Exists, L!Granted, liveApprovals
<1>3. ASSUME NEW w \in Workers, RequestStep(w), Overtaken(w) PROVE TicketsProposed'
  <2>1. UNCHANGED <<tasks, erased, liveApprovals>> /\ (tickets' = tickets \/ InsertTicket(w))
    BY <1>3, OvertakenStep DEF L!Outside
  <2>2. \A t \in Tasks : \A k : Proposes(t, k)' <=> Proposes(t, k)
    BY <2>1 DEF Proposes, Exists, L!Granted
  <2>3. InsertTicket(w) => Proposes(session[w].task, TaskRow(w).preview)
    <3> SUFFICES ASSUME InsertTicket(w) PROVE Proposes(session[w].task, TaskRow(w).preview)
      OBVIOUS
    <3>1. Holds(w) /\ session[w].task \in erased /\ TaskRow(w) \in Row
      BY <1>3 DEF ResetInv, HeldInv, Overtaken, TaskRow
    <3>2. TaskRow(w).state \in ApprovedStates
      BY <3>1 DEF Holds, InsertTicket, At, Executing
    <3> QED BY <3>1, <3>2, WorkflowAssumption DEF Proposes, Exists, TaskRow
  <2>4. session[w].task \in Tasks
    BY <1>3 DEF ResetInv, HeldInv, Overtaken
  <2>5. ASSUME NEW x \in tickets' PROVE \E t \in Tasks : Proposes(t, x.key)
    <3>1. CASE x \in tickets
      BY <3>1 DEF TicketsProposed
    <3>2. CASE x \notin tickets
      <4>1. InsertTicket(w) /\ x.key = TaskRow(w).preview
        BY <2>1, <2>5, <3>2 DEF InsertTicket, AddTicket
      <4> QED BY <2>3, <2>4, <4>1
    <3> QED BY <3>1, <3>2
  <2> QED BY <2>2, <2>5 DEF TicketsProposed
<1>4. ASSUME NEW w \in Workers, RequestStep(w), ~Overtaken(w) PROVE TicketsProposed'
  <2>1. /\ L!Frame(w) /\ L!IInv
        /\ UNCHANGED erased
        /\ \A t \in erased : tasks'[t] = tasks[t]
    BY <1>4, LiveStep DEF ResetInv, LiveInv
  <2>2. ASSUME NEW t \in Tasks, NEW k, Proposes(t, k) PROVE Proposes(t, k)'
    <3>1. CASE t \in erased
      BY <2>1, <2>2, <3>1 DEF Proposes, Exists
    <3>2. CASE t \notin erased
      <4>1. liveTasks[t] = tasks[t] /\ liveTasks'[t] = tasks'[t] /\ tasks[t] # NoValue
        BY <2>1, <2>2, <3>2 DEF liveTasks, Proposes, Exists
      <4>2. L!Granted(t) /\ L!DecisionTaken(t)
        BY <2>2, <3>2 DEF Proposes, L!Granted, L!DecisionTaken
      <4>3. liveTasks'[t].preview = liveTasks[t].preview /\ liveTasks'[t] # NoValue
        BY <2>1, <4>1, <4>2, LivePolicy, LiveAssumption, L!DecidedRow
        DEF L!Exists, L!Frame, L!RowsStep
      <4>4. L!Granted(t)'
        BY <2>1, <4>2, LivePolicy, LiveAssumption, L!ApprovalsStay DEF L!Granted
      <4> QED BY <2>1, <2>2, <3>2, <4>1, <4>3, <4>4 DEF Proposes, Exists
    <3> QED BY <3>1, <3>2
  <2>3. ASSUME NEW x \in tickets' PROVE \E t \in Tasks : Proposes(t, x.key)
    <3>1. CASE x \in tickets
      BY <3>1 DEF TicketsProposed
    <3>2. CASE x \notin tickets
      <4> DEFINE t == session[w].task
      <4>1. L!InsertTicket(w)
        BY <2>1, <2>3, <3>2 DEF L!Frame
      <4>2. /\ liveSession[w] = session[w] /\ liveSession[w].at = "insert"
            /\ x.key = L!TaskRow(w).preview
        BY <1>4, <2>3, <3>2, <4>1, LiveReads DEF L!InsertTicket, L!AddTicket, L!At
      <4>3. /\ t \in Tasks \ erased /\ L!TaskRow(w) = TaskRow(w) /\ TaskRow(w) # NoValue
        BY <1>4, <4>2, LiveReads DEF At
      <4>4. L!Granted(t)
        BY <2>1, <4>2, LivePolicy, LiveAssumption, L!ExecutedRow DEF L!Executing
      <4>5. Proposes(t, x.key)
        BY <4>2, <4>3, <4>4 DEF Proposes, Exists, TaskRow
      <4> QED BY <4>3, <4>5
    <3> QED BY <3>1, <3>2
  <2> QED BY <2>2, <2>3 DEF TicketsProposed
<1> QED BY <1>1, <1>2, <1>3, <1>4, NextCases

\* For any number of tasks, overlapping requests and resets: every ticket, also
\* one that an overtaken request writes into the new workspace, is the proposal
\* of a task that had been approved.
THEOREM ResetsKeepApproval == SpecWithReset => []TicketsWereApproved
<1>1. InitWithReset => TicketsProposed
  BY DEF InitWithReset, Init, TicketsProposed
<1>2. ResetInv /\ TicketsProposed => TicketsWereApproved
  <2> SUFFICES ASSUME ResetInv, NEW t \in Tasks, NEW k, Proposes(t, k), t \notin erased
               PROVE  Approved(t)
    BY DEF TicketsProposed, TicketsWereApproved, Proposes
  <2>1. PICK a \in approvals : a.task = t /\ a.decision = "approved" /\ a \in liveApprovals
    BY DEF Proposes, L!Granted, liveApprovals
  <2>2. CanApprove(a.actor, tasks[t].project)
    BY <2>1, SamePolicy
    DEF ResetInv, LiveInv, L!IInv, L!DecisionInv, L!DecisionsAuthorized, liveTasks
  <2> QED BY <2>1, <2>2 DEF Approved
<1> QED BY <1>1, <1>2, ProposedKept, ResetInvariant, PTL DEF SpecWithReset

\* What the live tasks claim is true of the tickets that are there after any
\* number of resets, although overtaken requests write tickets under their keys.
THEOREM LiveReceiptsStayTrue == SpecWithReset => []LiveReceiptsAreTrue
<1>1. ResetInv => LiveReceiptsAreTrue
  <2> SUFFICES ASSUME ResetInv, NEW t \in Tasks, Live(t), tasks[t].receipt # NoValue
               PROVE  /\ \E x \in FindByKey(tasks[t].preview) : x.num = tasks[t].receipt.num
                      /\ ~tasks[t].receipt.replayed =>
                           \A u \in Tasks \ {t} :
                             Live(u) /\ tasks[u].receipt # NoValue
                               /\ tasks[u].preview = tasks[t].preview
                                 => tasks[u].receipt.replayed
    BY DEF LiveReceiptsAreTrue
  <2>1. \A u \in Tasks : Live(u) => liveTasks[u] = tasks[u] /\ L!Exists(u)
    BY DEF Live, liveTasks, Exists, L!Exists
  <2>2. \E x \in FindByKey(tasks[t].preview) : x.num = tasks[t].receipt.num
    BY <2>1 DEF ResetInv, LiveInv, L!TruthInv, L!ReceiptsNameTickets, FindByKey,
                L!FindByKey
  <2>3. ASSUME NEW u \in Tasks, L!Original(t), L!Original(u),
               liveTasks[t].preview = liveTasks[u].preview
        PROVE  t = u
    BY <2>3 DEF ResetInv, LiveInv, L!OriginalInv
  <2> QED BY <2>1, <2>2, <2>3 DEF L!Original
<1> QED BY <1>1, ResetInvariant, PTL
LEMMA GapStep ==
  ASSUME ResetInv, [NextWithReset]_<<vars, resetVars>>, Dense, ~Dense'
  PROVE  \E w \in Workers : At(w, "insert") /\ Overtaken(w) /\ session'[w] # session[w]
<1>1. CASE DropTables
  <2>1. tickets' = {}
    BY <1>1 DEF DropTables
  <2> QED BY <2>1, FS_EmptySet DEF Dense
<1>2. CASE UNCHANGED <<vars, erased>>
  BY <1>2 DEF vars, Dense
<1>3. ASSUME NEW w \in Workers, RequestStep(w), Overtaken(w)
      PROVE  At(w, "insert") /\ session'[w] # session[w]
  <2>1. InsertTicket(w)
    BY <1>3, OvertakenStep DEF Dense
  <2>2. session[w] \in Session /\ session = [v \in Workers |-> session[v]]
    BY <1>3 DEF ResetInv, HeldInv, Holds
  <2>3. session'[w].at # "insert"
    BY <2>1, <2>2 DEF InsertTicket, AfterInsert, Goto, Session
  <2> QED BY <2>1, <2>3 DEF InsertTicket, At
<1>4. ASSUME NEW w \in Workers, RequestStep(w), ~Overtaken(w) PROVE FALSE
  <2>1. /\ L!Frame(w) /\ L!TypeInv /\ L!CountsAreBehind
    BY <1>4, LiveStep DEF ResetInv, LiveInv, L!IInv
  <2>2. L!InsertTicket(w)
    BY <2>1 DEF L!Frame, Dense
  <2> DEFINE num == liveSession[w].result.num
  <2>3. /\ Cardinality(tickets) \in Nat
        /\ Cardinality(tickets') = Cardinality(tickets) + 1
    BY <2>1, <2>2, LivePolicy, LiveAssumption, L!InsertKeepsBehind
    DEF L!Cardinality, Cardinality
  <2>4. /\ \A x \in tickets : x.num # num
        /\ \E k : tickets' = tickets \cup {[key |-> k, num |-> num]}
    BY <2>2 DEF L!InsertTicket, L!Clashes, L!AddTicket
  <2>5. num \in 1 .. Cardinality(tickets) + 1
    BY <2>1, <2>2 DEF L!CountsAreBehind, L!InsertTicket, L!Cardinality, Cardinality
  <2> HIDE DEF num
  <2> DEFINE Numbers == {x.num : x \in tickets}
             count == Cardinality(tickets)
  <2>6. num \notin Numbers
    BY <2>4
  <2>7. Numbers' = Numbers \cup {num}
    <3>1. PICK k : tickets' = tickets \cup {[key |-> k, num |-> num]}
      BY <2>4
    <3>2. [key |-> k, num |-> num].num = num
      OBVIOUS
    <3> QED BY <3>1, <3>2
  <2>8. Numbers = 1 .. count /\ Numbers' # 1 .. count'
    BY DEF Dense
  <2> HIDE DEF Numbers, count
  <2>9. count \in Nat /\ count' = count + 1 /\ num \in 1 .. count + 1
    BY <2>3, <2>5 DEF count
  <2>10. 1 .. count + 1 = 1 .. count \cup {count + 1}
    BY <2>9
  <2> QED BY <2>6, <2>7, <2>8, <2>9, <2>10
<1> QED BY <1>1, <1>2, <1>3, <1>4, NextCases

\* Tickets stay numbered without gaps through any number of resets, but for the
\* insert of an overtaken request.
THEOREM GapsNeedOvertakenRequests == SpecWithReset => GapsComeFromOvertakenRequests
<1>1. ResetInv /\ [NextWithReset]_<<vars, resetVars>> =>
        [Dense /\ ~Dense' =>
           \E w \in Workers : /\ At(w, "insert")
                              /\ Overtaken(w)
                              /\ session'[w] # session[w]]_<<vars, resetVars>>
  BY GapStep
<1> QED BY <1>1, ResetInvariant, PTL DEF SpecWithReset, GapsComeFromOvertakenRequests

LEMMA UnconfirmedStep ==
  ASSUME ResetInv, [NextWithReset]_<<vars, resetVars>>,
         NEW i \in DOMAIN attempts \cap DOMAIN attempts',
         attempts[i].status # "FAILED_UNCONFIRMED",
         attempts'[i].status = "FAILED_UNCONFIRMED"
  PROVE  \E w \in Workers : At(w, "reconcile") /\ Overtaken(w) /\ session'[w] # session[w]
<1>1. CASE DropTables
  BY <1>1 DEF DropTables
<1>2. CASE UNCHANGED <<vars, erased>>
  BY <1>2 DEF vars
<1>3. ASSUME NEW w \in Workers, RequestStep(w), Overtaken(w)
      PROVE  At(w, "reconcile") /\ session'[w] # session[w]
  <2>1. attempts \in Seq(Attempt)
    BY SameTypes DEF ResetInv, LiveInv, L!IInv, L!TypeInv, L!TypeOK
  <2>2. \A x : attempts' = Append(attempts, x) => attempts'[i] = attempts[i]
    BY <2>1
  <2>3. ~OpenAttempt(w)
    BY <2>2 DEF OpenAttempt
  <2>4. ExecutionFails(w) /\ At(w, "reconcile")
    BY <1>3, <2>3, OvertakenProceeds
    DEF ResetInv, RetrieveDocuments, StoreApproval, StoreRejection, StoreDecision,
        LogResume, MissTicket, InsertTicket, ConfirmTicket, FindTicket, CountTickets,
        FindAfterTimeout, DecisionConflict, PauseAfterApproval, ExecutionFails,
        RequestOvertaken
  <2>5. session[w] \in Session /\ session = [v \in Workers |-> session[v]]
    BY <1>3 DEF ResetInv, HeldInv, Holds
  <2>6. session'[w].at = "idle"
    BY <2>4, <2>5 DEF ExecutionFails, Finish, Idle
  <2> QED BY <2>4, <2>6 DEF At
<1>4. ASSUME NEW w \in Workers, RequestStep(w), ~Overtaken(w) PROVE FALSE
  <2>1. L!Frame(w) /\ L!TypeInv /\ L!WritesFound
    BY <1>4, LiveStep DEF ResetInv, LiveInv, L!IInv, L!TruthInv
  <2>2. L!At(w, "reconcile") /\ L!ExecutionRefused(w)
    BY <2>1, LivePolicy, LiveAssumption, L!AttemptsKept
  <2>3. L!Confirmed(w)
    BY <2>1, <2>2 DEF L!WritesFound, L!Written, L!At
  <2> QED BY <2>2, <2>3 DEF L!ExecutionRefused, L!Confirmed, L!At
<1> QED BY <1>1, <1>2, <1>3, <1>4, NextCases

\* Reconciliation gives an attempt up only where a reset dropped the ticket that
\* the request had written.
THEOREM UnconfirmedNeedsReset == SpecWithReset => UnconfirmedOnlyAfterReset
<1>1. ResetInv /\ [NextWithReset]_<<vars, resetVars>> =>
        [(\E i \in DOMAIN attempts \cap DOMAIN attempts' :
            /\ attempts[i].status # "FAILED_UNCONFIRMED"
            /\ attempts'[i].status = "FAILED_UNCONFIRMED")
         => \E w \in Workers : /\ At(w, "reconcile")
                                /\ Overtaken(w)
                                /\ session'[w] # session[w]]_<<vars, resetVars>>
  BY UnconfirmedStep
<1> QED BY <1>1, ResetInvariant, PTL DEF SpecWithReset, UnconfirmedOnlyAfterReset
=============================================================================
