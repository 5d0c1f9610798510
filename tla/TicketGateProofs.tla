-------------------------- MODULE TicketGateProofs --------------------------
(***************************************************************************)
(* Proofs about the tickets: that they are numbered without gaps and that  *)
(* a key has one, although counting and inserting are separate statements; *)
(* and that the workflow implements TicketGate: with any overlap of        *)
(* requests and any faults, what can be seen of proposals, decisions,      *)
(* tickets and receipts is a behaviour of the gate.                        *)
(*                                                                         *)
(* Each step of a request is one step of the gate or none.  The step of    *)
(* the gate is enabled because of the invariants of the other modules: an  *)
(* insert finds its task approved (DecisionInv), its key free and its      *)
(* number the next one (NumberInv), and a receipt that is overwritten      *)
(* named the same ticket before (TruthInv).                                *)
(*                                                                         *)
(* The last part shows that the invariants stand a step of somebody else,  *)
(* who writes an attempt and a ticket and changes no row, decision or      *)
(* session (Outside); the proofs about resets need it.                     *)
(***************************************************************************)
EXTENDS TaskOutcomeProofs

USE DEF At, TaskRow, Exists

-----------------------------------------------------------------------------
(* The numbers of tickets.                                                 *)

Keys == {x.key : x \in tickets}
Numbers == {x.num : x \in tickets}

\* A count may be behind the table but never ahead of it: rows are only added.
CountsAreBehind ==
  \A w \in Workers : At(w, "insert") =>
    session[w].result.num \in 1 .. Cardinality(tickets) + 1

NumberInv ==
  /\ Numbers = 1 .. Cardinality(tickets)
  /\ IsFiniteSet(Keys)
  /\ Cardinality(Keys) = Cardinality(tickets)
  /\ CountsAreBehind

\* A step that leaves the table alone and brings nobody to the insert.
Apart ==
  /\ tickets' = tickets
  /\ \A v \in Workers : session'[v] = session[v] \/ session'[v].at # "insert"

LEMMA ApartKeeps ==
  ASSUME NumberInv, Apart
  PROVE  NumberInv'
  BY DEF NumberInv, Apart, Keys, Numbers, CountsAreBehind

\* How a step leaves its session.
LEMMA SessionMoves ==
  ASSUME TypeInv, NEW w \in Workers, tickets' = tickets,
         \/ Finish(w)
         \/ \E place, state :
              /\ place # "insert"
              /\ \/ Goto(w, place)
                 \/ GotoSeeing(w, place, state)
                 \/ GotoWith(w, place, state)
  PROVE  Apart
<1>1. session \in [Workers -> Session]
  BY DEF TypeInv, SessionsOK
<1>2. CASE Finish(w)
  BY <1>1, <1>2 DEF Apart, Finish, Idle
<1>3. CASE \E place, state :
             /\ place # "insert"
             /\ \/ Goto(w, place)
                \/ GotoSeeing(w, place, state)
                \/ GotoWith(w, place, state)
  <2>1. PICK place, state :
          /\ place # "insert"
          /\ \/ Goto(w, place)
             \/ GotoSeeing(w, place, state)
             \/ GotoWith(w, place, state)
    BY <1>3
  <2>2. session'[w].at = place /\ \A v \in Workers \ {w} : session'[v] = session[v]
    BY <1>1, <2>1 DEF Goto, GotoSeeing, GotoWith, Session
  <2> QED BY <2>1, <2>2 DEF Apart
<1> QED BY <1>2, <1>3

-----------------------------------------------------------------------------
(* The two steps that matter.                                              *)

LEMMA CountKeepsBehind ==
  ASSUME TypeInv, CountsAreBehind, NEW w \in Workers, CountTickets(w)
  PROVE  CountsAreBehind' /\ tickets' = tickets
<1>1. Cardinality(tickets) \in Nat
  BY FS_CardinalityType DEF TypeInv
<1>2. /\ tickets' = tickets
      /\ session' = [session EXCEPT ![w].at = "insert",
                       ![w].result = Found(Cardinality(tickets) + 1, FALSE, FALSE)]
  BY DEF CountTickets, GotoWith, NextNumber, NumberAfter
<1>3. session \in [Workers -> Session]
  BY DEF TypeInv, SessionsOK
<1>4. /\ session'[w].result.num = Cardinality(tickets) + 1
      /\ \A v \in Workers \ {w} : session'[v] = session[v]
  BY <1>2, <1>3 DEF Session, Found
<1>5. Cardinality(tickets) + 1 \in 1 .. Cardinality(tickets) + 1
  BY <1>1
<1>6. \A v \in Workers \ {w} : session'[v].at = "insert" =>
        session'[v].result.num \in 1 .. Cardinality(tickets) + 1
  BY <1>4 DEF CountsAreBehind
<1> QED BY <1>2, <1>4, <1>5, <1>6 DEF CountsAreBehind

LEMMA InsertKeepsBehind ==
  ASSUME TypeInv, CountsAreBehind, NEW w \in Workers, InsertTicket(w)
  PROVE  /\ CountsAreBehind'
         /\ Cardinality(tickets) \in Nat
         /\ Cardinality(tickets') = Cardinality(tickets) + 1
<1> DEFINE x == [key |-> TaskRow(w).preview, num |-> session[w].result.num]
<1>1. Cardinality(tickets) \in Nat
  BY FS_CardinalityType DEF TypeInv
<1>2. tickets' = tickets \cup {x} /\ x \notin tickets
  BY DEF InsertTicket, Clashes, AddTicket
<1> HIDE DEF x
<1>3. Cardinality(tickets') = Cardinality(tickets) + 1
  BY <1>2, FS_AddElement DEF TypeInv
<1>4. \A v \in Workers : session'[v] = session[v] \/ session'[v].at # "insert"
  <2>1. session \in [Workers -> Session]
    BY DEF TypeInv, SessionsOK
  <2>2. PICK place \in {"timed_out", "succeed"} : Goto(w, place)
    BY DEF InsertTicket, AfterInsert
  <2> QED BY <2>1, <2>2 DEF Goto, Session
<1> QED BY <1>1, <1>3, <1>4 DEF CountsAreBehind

LEMMA InsertNumbers ==
  ASSUME TypeInv, NumberInv, NEW w \in Workers, InsertTicket(w)
  PROVE  NumberInv'
<1> DEFINE n == Cardinality(tickets)
           num == session[w].result.num
           k == TaskRow(w).preview
           x == [key |-> k, num |-> num]
<1>1. n \in Nat /\ CountsAreBehind' /\ Cardinality(tickets') = n + 1
  BY InsertKeepsBehind DEF NumberInv
<1>2. /\ tickets' = tickets \cup {x}
      /\ \A y \in tickets : y.key # k /\ y.num # num
      /\ num \in 1 .. n + 1
  BY DEF InsertTicket, Clashes, AddTicket, NumberInv, CountsAreBehind
<1>a. x.key = k /\ x.num = num
  OBVIOUS
<1> HIDE DEF k, x, num
<1>3. num = n + 1
  <2>1. num \notin Numbers
    BY <1>2 DEF Numbers
  <2> QED BY <1>1, <1>2, <2>1 DEF NumberInv
<1>5. Numbers' = 1 .. n + 1
  <2>1. Numbers' = Numbers \cup {num}
    BY <1>2, <1>a DEF Numbers
  <2> QED BY <1>1, <1>3, <2>1 DEF NumberInv
<1>6. IsFiniteSet(Keys') /\ Cardinality(Keys') = n + 1
  <2>1. Keys' = Keys \cup {k} /\ k \notin Keys
    BY <1>2, <1>a DEF Keys
  <2> QED BY <2>1, FS_AddElement DEF NumberInv
<1> QED BY <1>1, <1>5, <1>6 DEF NumberInv

-----------------------------------------------------------------------------
(* All other steps stay apart.                                             *)

LEMMA ArriveApart ==
  ASSUME TypeInv, NEW w \in Workers, Arrive(w)
  PROVE  Apart
<1>1. session \in [Workers -> Session]
  BY DEF TypeInv, SessionsOK
<1>2. tickets' = tickets
  BY DEF Arrive, CreateTask, Approve, Reject, Resume, ReadForDecision
<1>3. \E t, actor, seen : \E place \in {"contract", "approve", "reject", "resume"} :
        Begin(w, t, actor, place, seen)
  BY DEF Arrive, CreateTask, Approve, Reject, Resume, ReadForDecision
<1> QED BY <1>1, <1>2, <1>3 DEF Apart, Begin

LEMMA CreationApart ==
  ASSUME TypeInv, NEW w \in Workers,
         \/ CreateContract(w) \/ GatherDocuments(w) \/ StartAnalysis(w)
         \/ \E flagged \in BOOLEAN : RetrieveDocuments(w, flagged)
         \/ \E content \in Contents, verdict \in {"passed", "failed"} :
              Analyze(w, content, verdict)
         \/ RejectAnalysis(w) \/ ProposalReady(w) \/ ConcludeCreation(w)
         \/ CreationFails(w)
  PROVE  Apart
<1>1. tickets' = tickets
  BY DEF CreateContract, GatherDocuments, StartAnalysis, Advance, RetrieveDocuments,
         Analyze, RejectAnalysis, ProposalReady, ConcludeCreation, CreationFails
<1>2. \/ Finish(w)
      \/ \E place \in {"gather", "retrieve", "verify", "analyze", "judge", "conclude"} :
           \E state : Goto(w, place) \/ GotoSeeing(w, place, state)
  BY DEF CreateContract, GatherDocuments, StartAnalysis, Advance, RetrieveDocuments,
         Analyze, RejectAnalysis, ProposalReady, ConcludeCreation, CreationFails
<1> QED BY <1>1, <1>2, SessionMoves

LEMMA DecisionApart ==
  ASSUME TypeInv, NEW w \in Workers,
         \/ StoreApproval(w) \/ StoreRejection(w) \/ DecisionConflict(w)
         \/ MarkApproved(w) \/ MarkRejected(w) \/ PauseAfterApproval(w)
         \/ LogResume(w)
  PROVE  Apart
<1>1. tickets' = tickets
  BY DEF StoreApproval, StoreRejection, StoreDecision, DecisionConflict,
         MarkApproved, MarkRejected, PauseAfterApproval, LogResume
<1>2. \/ Finish(w)
      \/ \E place \in {"mark_approved", "mark_rejected", "pause", "execute"} :
           \E state : Goto(w, place) \/ GotoSeeing(w, place, state)
  BY DEF StoreApproval, StoreRejection, StoreDecision, DecisionConflict,
         MarkApproved, AfterApproval, MarkRejected, PauseAfterApproval, LogResume
<1> QED BY <1>1, <1>2, SessionMoves

LEMMA ExecutionApart ==
  ASSUME TypeInv, NEW w \in Workers,
         \/ BeginExecution(w) \/ FindTicket(w) \/ MissTicket(w)
         \/ RecordSuccess(w) \/ RecordTimeout(w) \/ FindAfterTimeout(w)
         \/ RecordReconciled(w) \/ ConfirmTicket(w) \/ RecordReceipt(w)
         \/ CompleteAction(w) \/ ExecutionFails(w) \/ RequestDies(w)
  PROVE  Apart
<1>1. tickets' = tickets
  BY DEF BeginExecution, FindTicket, MissTicket, RecordSuccess, RecordTimeout,
         FindAfterTimeout, RecordReconciled, ConfirmTicket, RecordReceipt,
         CompleteAction, ExecutionFails, RequestDies
<1>2. \/ Finish(w)
      \/ \E place \in {"open", "succeed", "count", "confirm", "reconcile",
                       "reconciled", "receipt", "complete"} :
           \E state : \/ Goto(w, place) \/ GotoSeeing(w, place, state)
                      \/ GotoWith(w, place, state)
  BY DEF BeginExecution, FindTicket, MissTicket, RecordSuccess, RecordTimeout,
         FindAfterTimeout, RecordReconciled, ConfirmTicket, RecordReceipt,
         CompleteAction, ExecutionFails, RequestDies
<1> QED BY <1>1, <1>2, SessionMoves

LEMMA OpenApart ==
  ASSUME TypeInv, NEW w \in Workers, OpenAttempt(w)
  PROVE  Apart
<1>1. session \in [Workers -> Session]
  BY DEF TypeInv, SessionsOK
<1> QED BY <1>1 DEF OpenAttempt, Apart, Session

-----------------------------------------------------------------------------

LEMMA StepApart ==
  ASSUME TypeInv, NEW w \in Workers, Step(w)
  PROVE  Apart \/ CountTickets(w) \/ InsertTicket(w)
<1>1. Proceed(w) => Apart \/ CountTickets(w) \/ InsertTicket(w)
  BY CreationApart, DecisionApart, ExecutionApart, OpenApart DEF Proceed
<1> QED BY <1>1, ArriveApart, CreationApart, ExecutionApart DEF Step

LEMMA BehindKept ==
  ASSUME TypeInv, CountsAreBehind, NEW w \in Workers, Step(w)
  PROVE  CountsAreBehind'
<1>1. Apart => CountsAreBehind'
  BY DEF Apart, CountsAreBehind
<1> QED BY <1>1, StepApart, CountKeepsBehind, InsertKeepsBehind

LEMMA NextNumbers ==
  ASSUME TypeInv, NumberInv, [Next]_vars
  PROVE  NumberInv'
<1>1. ASSUME NEW w \in Workers, CountTickets(w) PROVE NumberInv'
  <2>1. CountsAreBehind' /\ tickets' = tickets
    BY <1>1, CountKeepsBehind DEF NumberInv
  <2> QED BY <2>1 DEF NumberInv, Keys, Numbers
<1>2. CASE Next
  BY <1>1, <1>2, StepApart, ApartKeeps, InsertNumbers DEF Next, Step
<1>3. CASE UNCHANGED vars
  BY <1>3, ApartKeeps DEF vars, Apart
<1> QED BY <1>2, <1>3

LEMMA InitNumbers == Init => NumberInv
<1> SUFFICES ASSUME Init PROVE NumberInv
  OBVIOUS
<1>1. /\ Cardinality(tickets) = 0
      /\ IsFiniteSet(Keys) /\ Cardinality(Keys) = 0
      /\ Numbers = {}
  BY FS_EmptySet DEF Init, Keys, Numbers
<1>2. CountsAreBehind
  BY DEF Init, CountsAreBehind, Idle
<1> QED BY <1>1, <1>2 DEF NumberInv

\* Ticket numbers are 1 to n and a key has one ticket, however many executions
\* count before any of them inserts (FakeJira.create_ticket).
THEOREM TicketsAreNumbered == Spec => []TicketsAreNumberedInOrder
<1>1. NumberInv => TicketsAreNumberedInOrder
  BY DEF NumberInv, TicketsAreNumberedInOrder, Numbers, Keys
<1>2. NumberInv /\ TypeInv /\ [Next]_vars => NumberInv'
  BY NextNumbers
<1> QED BY <1>1, <1>2, InitNumbers, TypeInvariant, PTL DEF Spec

-----------------------------------------------------------------------------
(* What the gate rests on.                                                 *)

\* Creation proposes once.
ProposesOnce ==
  \A w \in Workers : session[w].at \in Creating \ {"conclude"} =>
    TaskRow(w).preview = NoValue

GateInv ==
  /\ IInv
  /\ TruthInv
  /\ AdmittedInv
  /\ NumberInv
  /\ ProposesOnce

\* The state of the gate that TaskWorkflow substitutes for its variables.
wantsBar == [t \in Tasks |-> IF Exists(t) THEN tasks[t].preview ELSE NoValue]
decisionBar == [t \in Tasks |-> DecisionOf(t)]
confirmedBar ==
  [t \in Tasks |-> IF Exists(t) /\ tasks[t].receipt # NoValue
                     THEN tasks[t].receipt.num ELSE 0]

-----------------------------------------------------------------------------
(* GateInv is inductive.                                                   *)

LEMMA ProposesOnceKept ==
  ASSUME IInv, ProposesOnce, NEW w \in Workers, Step(w)
  PROVE  ProposesOnce'
<1>0. Frame(w)
  BY NextFrame DEF IInv
<1> SUFFICES ASSUME NEW v \in Workers, session'[v].at \in Creating \ {"conclude"}
             PROVE  tasks'[session'[v].task].preview = NoValue
  BY DEF ProposesOnce
<1>1. CASE v # w
  <2>1. session'[v] = session[v]
    BY <1>0, <1>1 DEF Frame, SessionStep, OnlySession
  <2>2. session[v].task \in Tasks /\ tasks[session[v].task] # NoValue
    <3>1. session[v].at # "idle"
      BY <2>1 DEF Creating
    <3> QED BY <3>1, SessionFacts DEF IInv
  <2>3. session[w].task # session[v].task
    BY <1>1, <2>1 DEF IInv, DecisionInv, CreatorsAlone
  <2> QED BY <1>0, <2>1, <2>2, <2>3 DEF Frame, RowsStep, ProposesOnce
<1>2. CASE v = w /\ ~At(w, "idle")
  <2>1. /\ Moves(session[w].at, session'[w].at)
        /\ session'[w].task = session[w].task
    BY <1>0, <1>2 DEF Frame, SessionStep, Idle, Creating
  <2>2. session[w].at \in Creating \ {"conclude"} /\ ~At(w, "judge")
    BY <1>2, <2>1 DEF Moves, Creating
  <2>3. session[w].task \in Tasks /\ tasks[session[w].task] # NoValue
    BY <1>2, SessionFacts DEF IInv
  <2> QED BY <1>0, <1>2, <2>1, <2>2, <2>3 DEF Frame, RowsStep, ProposesOnce
<1>3. CASE v = w /\ At(w, "idle")
  <2>1. Arrive(w) /\ session \in [Workers -> Session]
    BY <1>3, StepFrom DEF Creating, IInv, TypeInv, SessionsOK
  <2>2. ASSUME NEW t \in Tasks, NEW actor \in Users,
               Approve(w, t, actor) \/ Reject(w, t, actor) \/ Resume(w, t, actor)
        PROVE  FALSE
    BY <1>3, <2>1, <2>2 DEF Approve, Reject, Resume, ReadForDecision, Begin, Creating
  <2>3. PICK t \in Tasks : tasks[t] = NoValue /\ tasks'[t] # NoValue
                           /\ session'[w].task = t
    <3>1. PICK t \in Tasks, u \in Users, p \in Projects, action \in RequestedAction,
               research \in BOOLEAN, mode \in Modes :
                 CreateTask(w, t, u, p, action, research, mode)
      BY <2>1, <2>2 DEF Arrive
    <3>2. session'[w].task = t /\ session'[w].at = "contract" /\ tasks[t] = NoValue
      BY <2>1, <3>1 DEF CreateTask, Begin
    <3>3. SessionsOK'
      BY <3>1, TypeCreateTask DEF IInv, TypeInv
    <3>4. tasks'[t] # NoValue
      BY <3>2, <3>3 DEF SessionsOK, Sound
    <3> QED BY <3>2, <3>4
  <2> QED BY <1>0, <1>3, <2>3 DEF Frame, RowsStep
<1> QED BY <1>1, <1>2, <1>3

LEMMA NextProposes ==
  IInv /\ ProposesOnce /\ [Next]_vars => ProposesOnce'
<1> SUFFICES ASSUME IInv, ProposesOnce, [Next]_vars PROVE ProposesOnce'
  OBVIOUS
<1>1. CASE UNCHANGED vars
  BY <1>1 DEF vars, ProposesOnce
<1> QED BY <1>1, ProposesOnceKept DEF Next, Step

LEMMA NextGateInv ==
  GateInv /\ [Next]_vars => GateInv'
<1> SUFFICES ASSUME GateInv, [Next]_vars PROVE GateInv'
  OBVIOUS
<1>1. IInv' /\ TruthInv' /\ AdmittedInv' /\ ProposesOnce'
  BY NextIInv, NextTruth, NextAdmitted, NextProposes DEF GateInv
<1>2. NumberInv'
  BY NextNumbers DEF GateInv, IInv
<1> QED BY <1>1, <1>2 DEF GateInv

\* What enables the steps of the gate: the invariants of the other modules, and
\* that creation proposes once.
THEOREM GateInvariant == Spec => []GateInv
<1>1. Init => GateInv
  <2>1. Init => ProposesOnce
    BY DEF Init, ProposesOnce, Creating, Idle
  <2> QED BY <2>1, InitIInv, InitTruth, InitAdmitted, InitNumbers DEF GateInv
<1> QED BY <1>1, NextGateInv, PTL DEF Spec
-----------------------------------------------------------------------------
(* What the gate sees of a step.                                           *)

LEMMA DecisionOfTask ==
  ASSUME IInv, NEW t \in Tasks
  PROVE  /\ Granted(t) <=> DecisionOf(t) = "approved"
         /\ Denied(t) <=> DecisionOf(t) = "rejected"
         /\ ~DecisionTaken(t) => DecisionOf(t) = "none"
  BY DEF DecisionOf, Granted, Denied, DecisionTaken, IInv, DecisionInv, OneDecision

\* Columns that a step leaves alone are not seen to change.
LEMMA SameWants ==
  ASSUME TypeInv, NEW w \in Workers, Frame(w), ~At(w, "judge")
  PROVE  wantsBar' = wantsBar
<1>1. \A t \in Tasks :
        (IF tasks'[t] # NoValue THEN tasks'[t].preview ELSE NoValue)
          = (IF tasks[t] # NoValue THEN tasks[t].preview ELSE NoValue)
  BY DEF Frame, RowsStep
<1> QED BY <1>1 DEF wantsBar

LEMMA SameConfirmed ==
  ASSUME TypeInv, NEW w \in Workers, Frame(w), ~At(w, "receipt")
  PROVE  confirmedBar' = confirmedBar
<1>1. \A t \in Tasks :
        (IF tasks'[t] # NoValue /\ tasks'[t].receipt # NoValue
           THEN tasks'[t].receipt.num ELSE 0)
          = (IF tasks[t] # NoValue /\ tasks[t].receipt # NoValue
               THEN tasks[t].receipt.num ELSE 0)
  BY DEF Frame, RowsStep
<1> QED BY <1>1 DEF confirmedBar

LEMMA SameDecision ==
  ASSUME approvals' = approvals
  PROVE  decisionBar' = decisionBar
  BY DEF decisionBar, DecisionOf

-----------------------------------------------------------------------------
(* The four steps of the gate.                                             *)

\* The end of an analysis proposes the ticket.
LEMMA JudgeProposes ==
  ASSUME GateInv, NEW w \in Workers, Step(w), At(w, "judge")
  PROVE  /\ UNCHANGED <<decisionBar, tickets, confirmedBar>>
         /\ \/ UNCHANGED wantsBar
            \/ \E t \in Tasks, k \in Key :
                 /\ wantsBar[t] = NoValue
                 /\ wantsBar' = [wantsBar EXCEPT ![t] = k]
<1>0. Frame(w)
  BY NextFrame DEF GateInv, IInv
<1>1. UNCHANGED <<approvals, tickets>>
  BY <1>0 DEF Frame, InsertTicket
<1>2. UNCHANGED <<decisionBar, confirmedBar>>
  BY <1>0, <1>1, SameDecision, SameConfirmed DEF GateInv, IInv
<1> DEFINE t == session[w].task
           k == PreviewOf(tasks[t])
<1>3. t \in Tasks /\ tasks[t] # NoValue /\ tasks[t].preview = NoValue
  BY SessionFacts DEF GateInv, IInv, ProposesOnce, Creating
<1>4. k \in Key \/ k = NoValue
  BY JudgedPreview DEF GateInv, IInv
<1>5. /\ \A u \in Tasks \ {t} : tasks[u] # NoValue => tasks'[u] = tasks[u]
      /\ \A u \in Tasks : tasks[u] = NoValue => tasks'[u] = NoValue
      /\ tasks'[t] # NoValue
      /\ tasks'[t].preview = NoValue \/ tasks'[t].preview = k
  BY <1>0, <1>3 DEF Frame, RowsStep
<1> HIDE DEF k, t
<1>6. CASE tasks'[t].preview = NoValue
  <2>1. \A u \in Tasks :
          (IF tasks'[u] # NoValue THEN tasks'[u].preview ELSE NoValue)
            = (IF tasks[u] # NoValue THEN tasks[u].preview ELSE NoValue)
    BY <1>3, <1>5, <1>6
  <2> QED BY <1>1, <1>2, <2>1 DEF wantsBar
<1>7. CASE tasks'[t].preview # NoValue
  <2>1. tasks'[t].preview = k /\ k \in Key
    BY <1>4, <1>5, <1>7
  <2>2. wantsBar[t] = NoValue
    BY <1>3 DEF wantsBar
  <2>3. \A u \in Tasks :
          (IF tasks'[u] # NoValue THEN tasks'[u].preview ELSE NoValue)
            = (IF u = t THEN k
               ELSE IF tasks[u] # NoValue THEN tasks[u].preview ELSE NoValue)
    BY <1>3, <1>5, <2>1
  <2>4. wantsBar' = [wantsBar EXCEPT ![t] = k]
    BY <2>3 DEF wantsBar
  <2> QED BY <1>1, <1>2, <1>3, <2>1, <2>2, <2>4
<1> QED BY <1>6, <1>7

\* The first stored decision decides.
LEMMA ApprovalDecides ==
  ASSUME GateInv, NEW w \in Workers, Frame(w),
         \/ At(w, "approve") /\ StoreApproval(w)
         \/ At(w, "reject") /\ StoreRejection(w)
  PROVE  \E t \in Tasks, d \in {"approved", "rejected"} :
           /\ wantsBar[t] # NoValue
           /\ decisionBar[t] = "none"
           /\ decisionBar' = [decisionBar EXCEPT ![t] = d]
           /\ UNCHANGED <<wantsBar, tickets, confirmedBar>>
<1> DEFINE t == session[w].task
<1>1. PICK d \in {"approved", "rejected"} :
        approvals' = approvals \cup
          {[task |-> t, decision |-> d, actor |-> session[w].actor]}
  BY DEF StoreApproval, StoreRejection, StoreDecision
<1>2. UNCHANGED <<tasks, tickets>> /\ ~DecisionTaken(t)
  BY DEF StoreApproval, StoreRejection, StoreDecision
<1>3. t \in Tasks /\ tasks[t] # NoValue /\ tasks[t].preview # NoValue
  BY SessionFacts DEF GateInv, IInv, AdmittedInv, PendingHasPreview, Deciding
<1> HIDE DEF t
<1>4. wantsBar[t] # NoValue /\ decisionBar[t] = "none"
  BY <1>2, <1>3, DecisionOfTask DEF wantsBar, decisionBar, GateInv
<1>5. UNCHANGED <<wantsBar, confirmedBar>>
  BY <1>2 DEF wantsBar, confirmedBar
<1>6. \A u \in Tasks : DecisionOf(u)' = IF u = t THEN d ELSE DecisionOf(u)
  <2> SUFFICES ASSUME NEW u \in Tasks
               PROVE  DecisionOf(u)' = IF u = t THEN d ELSE DecisionOf(u)
    OBVIOUS
  <2>1. CASE u = t
    <3> DEFINE a == [task |-> t, decision |-> d, actor |-> session[w].actor]
    <3>1. a.task = t /\ a.decision = d /\ a \in approvals'
      BY <1>1 DEF t
    <3>2. \A b \in approvals' : b = a \/ b.task # t
      BY <1>1, <1>2 DEF t, DecisionTaken
    <3> HIDE DEF a
    <3>3. CASE d = "approved"
      BY <2>1, <3>1, <3>3 DEF DecisionOf
    <3>4. CASE d = "rejected"
      BY <2>1, <3>1, <3>2, <3>4 DEF DecisionOf
    <3> QED BY <3>3, <3>4
  <2>2. CASE u # t
    BY <1>1, <2>2 DEF DecisionOf
  <2> QED BY <2>1, <2>2
<1>7. decisionBar' = [decisionBar EXCEPT ![t] = d]
  BY <1>6 DEF decisionBar
<1> QED BY <1>2, <1>3, <1>4, <1>5, <1>7

\* The insert issues the next ticket, for a task that is approved.
LEMMA InsertIssues ==
  ASSUME GateInv, NEW w \in Workers, InsertTicket(w)
  PROVE  \E t \in Tasks :
           /\ wantsBar[t] # NoValue
           /\ decisionBar[t] = "approved"
           /\ \A x \in tickets : x.key # wantsBar[t]
           /\ tickets' = tickets \cup
                {[key |-> wantsBar[t], num |-> Cardinality(tickets) + 1]}
           /\ UNCHANGED <<wantsBar, decisionBar, confirmedBar>>
<1> DEFINE t == session[w].task
           num == session[w].result.num
           n == Cardinality(tickets)
<1>1. /\ ~At(w, "idle") /\ At(w, "insert")
      /\ UNCHANGED <<tasks, approvals>>
      /\ tickets' = tickets \cup {[key |-> tasks[t].preview, num |-> num]}
      /\ \A x \in tickets : x.key # tasks[t].preview /\ x.num # num
  BY DEF InsertTicket, AddTicket, Clashes
<1>2. /\ t \in Tasks /\ tasks[t] # NoValue
      /\ Granted(t)
  BY <1>1, SessionFacts DEF GateInv, IInv, DecisionInv, ExecutorsGranted, Executing
<1>3. tasks[t].preview # NoValue
  BY <1>2 DEF Granted, GateInv, AdmittedInv, PendingHasPreview
<1>4. num = n + 1
  <2>1. n \in Nat
    BY FS_CardinalityType DEF GateInv, IInv, TypeInv
  <2>2. num \in 1 .. n + 1 /\ num \notin 1 .. n
    BY <1>1 DEF GateInv, NumberInv, CountsAreBehind, Numbers
  <2> QED BY <2>1, <2>2
<1> HIDE DEF t, num
<1>5. wantsBar[t] = tasks[t].preview /\ decisionBar[t] = "approved"
  BY <1>2, DecisionOfTask DEF wantsBar, decisionBar, GateInv
<1>6. UNCHANGED <<wantsBar, decisionBar, confirmedBar>>
  BY <1>1 DEF wantsBar, decisionBar, confirmedBar, DecisionOf
<1> QED BY <1>1, <1>2, <1>3, <1>4, <1>5, <1>6

\* The receipt confirms the ticket that the task wanted.
LEMMA ReceiptConfirms ==
  ASSUME GateInv, NEW w \in Workers, RecordReceipt(w)
  PROVE  \E t \in Tasks, n \in {x.num : x \in tickets} :
           /\ decisionBar[t] = "approved"
           /\ [key |-> wantsBar[t], num |-> n] \in tickets
           /\ confirmedBar[t] \in {0, n}
           /\ confirmedBar' = [confirmedBar EXCEPT ![t] = n]
           /\ UNCHANGED <<wantsBar, decisionBar, tickets>>
<1> DEFINE t == session[w].task
           n == session[w].result.num
<1>0. /\ At(w, "receipt") /\ ~At(w, "idle") /\ ~At(w, "judge")
      /\ UNCHANGED <<approvals, tickets>>
      /\ Frame(w)
      /\ tasks'[t].receipt = session[w].result
  BY RecordReceiptFrame DEF RecordReceipt, GateInv, IInv
<1>1. /\ t \in Tasks /\ tasks[t] # NoValue
      /\ Granted(t)
      /\ session[w].result # NoValue
  <2>1. session[w].at \in Numbered /\ session[w].at \in Executing
    BY <1>0 DEF Numbered, Attempted, InGateway, Executing
  <2> QED BY <1>0, <2>1, SessionFacts
          DEF GateInv, IInv, TypeInv, SessionsOK, Sound, DecisionInv, ExecutorsGranted
<1>2. PICK x \in tickets : x.key = tasks[t].preview /\ x.num = n
  BY <1>0 DEF GateInv, TruthInv, WritesFound, Confirmed, FindByKey, Written
<1>3. x = [key |-> tasks[t].preview, num |-> n]
  BY <1>2 DEF GateInv, IInv, TypeInv, TypeOK
<1>4. tasks[t].receipt # NoValue => tasks[t].receipt.num = n
  <2> SUFFICES ASSUME tasks[t].receipt # NoValue PROVE tasks[t].receipt.num = n
    OBVIOUS
  <2>1. PICK y \in tickets : /\ y.key = tasks[t].preview
                             /\ y.num = tasks[t].receipt.num
    BY <1>1 DEF GateInv, TruthInv, ReceiptsNameTickets, FindByKey
  <2> QED BY <1>2, <2>1 DEF GateInv, TruthInv, KeysDistinct
<1>5. /\ \A u \in Tasks : u # t /\ tasks[u] # NoValue => tasks'[u] = tasks[u]
      /\ \A u \in Tasks : tasks[u] = NoValue => tasks'[u] = NoValue
      /\ tasks'[t] # NoValue
  BY <1>0, <1>1 DEF Frame, RowsStep
<1> HIDE DEF t, n
<1>6. wantsBar[t] = tasks[t].preview /\ decisionBar[t] = "approved"
  BY <1>1, DecisionOfTask DEF wantsBar, decisionBar, GateInv
<1>7. confirmedBar[t] \in {0, n}
  BY <1>1, <1>4 DEF confirmedBar
<1>8. confirmedBar' = [confirmedBar EXCEPT ![t] = n]
  <2>1. tasks'[t].receipt # NoValue /\ tasks'[t].receipt.num = n
    BY <1>0, <1>1 DEF t, n
  <2>2. \A u \in Tasks :
          (IF tasks'[u] # NoValue /\ tasks'[u].receipt # NoValue
             THEN tasks'[u].receipt.num ELSE 0)
            = (IF u = t THEN n
               ELSE IF tasks[u] # NoValue /\ tasks[u].receipt # NoValue
                 THEN tasks[u].receipt.num ELSE 0)
    BY <1>1, <1>5, <2>1
  <2> QED BY <2>2 DEF confirmedBar
<1>9. UNCHANGED <<wantsBar, decisionBar>>
  BY <1>0, SameWants, SameDecision DEF GateInv, IInv
<1> QED BY <1>0, <1>1, <1>2, <1>3, <1>6, <1>7, <1>8, <1>9
-----------------------------------------------------------------------------
(* Every step is one step of the gate or none.                             *)

LEMMA InitGate ==
  Init => Gate!Init
<1> SUFFICES ASSUME Init PROVE Gate!Init
  OBVIOUS
<1>1. tasks = [t \in Tasks |-> NoValue] /\ approvals = {} /\ tickets = {}
  BY DEF Init
<1>2. \A t \in Tasks : ~Exists(t) /\ DecisionOf(t) = "none"
  BY <1>1 DEF DecisionOf
<1> QED BY <1>1, <1>2 DEF Gate!Init

LEMMA StepIsGateStep ==
  ASSUME GateInv, NEW w \in Workers, Step(w)
  PROVE  Gate!Next \/ UNCHANGED <<wantsBar, decisionBar, tickets, confirmedBar>>
<1>0. Frame(w)
  BY NextFrame DEF GateInv, IInv
<1> USE DEF Gate!Next, Gate!Ticket
<1>1. CASE At(w, "judge")
  <2>1. ASSUME NEW t \in Tasks, NEW k \in Key,
               wantsBar[t] = NoValue,
               wantsBar' = [wantsBar EXCEPT ![t] = k],
               UNCHANGED <<decisionBar, tickets, confirmedBar>>
        PROVE  Gate!Propose(t, k)
    BY <2>1 DEF Gate!Propose, wantsBar, decisionBar, confirmedBar
  <2> QED BY <1>1, <2>1, JudgeProposes
<1>2. CASE \/ At(w, "approve") /\ StoreApproval(w)
           \/ At(w, "reject") /\ StoreRejection(w)
  <2>1. PICK t \in Tasks, d \in {"approved", "rejected"} :
           /\ wantsBar[t] # NoValue
           /\ decisionBar[t] = "none"
           /\ decisionBar' = [decisionBar EXCEPT ![t] = d]
           /\ UNCHANGED <<wantsBar, tickets, confirmedBar>>
    BY <1>0, <1>2, ApprovalDecides
  <2>2. Gate!Decide(t, d)
    BY <2>1 DEF Gate!Decide, wantsBar, decisionBar, confirmedBar
  <2> QED BY <2>2
<1>3. CASE InsertTicket(w)
  <2>1. PICK t \in Tasks :
           /\ wantsBar[t] # NoValue
           /\ decisionBar[t] = "approved"
           /\ \A x \in tickets : x.key # wantsBar[t]
           /\ tickets' = tickets \cup
                {[key |-> wantsBar[t], num |-> Cardinality(tickets) + 1]}
           /\ UNCHANGED <<wantsBar, decisionBar, confirmedBar>>
    BY <1>3, InsertIssues
  <2>2. Gate!Issue(t)
    <3>1. Gate!Cardinality(tickets) = Cardinality(tickets)
      BY DEF Cardinality, Gate!Cardinality
    <3> QED BY <2>1, <3>1 DEF Gate!Issue, wantsBar, decisionBar, confirmedBar
  <2> QED BY <2>2
<1>4. CASE RecordReceipt(w)
  <2>1. PICK t \in Tasks, n \in {x.num : x \in tickets} :
           /\ decisionBar[t] = "approved"
           /\ [key |-> wantsBar[t], num |-> n] \in tickets
           /\ confirmedBar[t] \in {0, n}
           /\ confirmedBar' = [confirmedBar EXCEPT ![t] = n]
           /\ UNCHANGED <<wantsBar, decisionBar, tickets>>
    BY <1>4, ReceiptConfirms
  <2>2. Gate!Confirm(t, n)
    BY <2>1 DEF Gate!Confirm, wantsBar, decisionBar, confirmedBar
  <2> QED BY <2>2
<1>5. CASE /\ ~At(w, "judge")
           /\ ~(At(w, "approve") /\ StoreApproval(w))
           /\ ~(At(w, "reject") /\ StoreRejection(w))
           /\ ~InsertTicket(w)
           /\ ~RecordReceipt(w)
  <2>1. UNCHANGED <<approvals, tickets>>
    BY <1>0, <1>5 DEF Frame
  <2>2. UNCHANGED confirmedBar
    <3>1. CASE At(w, "receipt")
      BY <1>5, <3>1, ReceiptStep DEF GateInv, IInv, confirmedBar
    <3> QED BY <1>0, <3>1, SameConfirmed DEF GateInv, IInv
  <2> QED BY <1>0, <1>5, <2>1, <2>2, SameWants, SameDecision DEF GateInv, IInv
<1> QED BY <1>1, <1>2, <1>3, <1>4, <1>5

LEMMA NextGate ==
  GateInv /\ [Next]_vars => [Gate!Next]_(Gate!gateVars)
<1> SUFFICES ASSUME GateInv, [Next]_vars PROVE [Gate!Next]_(Gate!gateVars)
  OBVIOUS
<1>1. CASE UNCHANGED vars
  BY <1>1 DEF vars, Gate!gateVars, DecisionOf
<1>2. CASE \E w \in Workers : Step(w)
  BY <1>2, StepIsGateStep DEF Gate!gateVars, wantsBar, decisionBar, confirmedBar
<1> QED BY <1>1, <1>2 DEF Next, Step

\* ImplementsTicketGate: with any number of tasks, users and overlapping
\* requests, and with any faults, a ticket is issued only for a task whose
\* single decision approved it, tickets are numbered without gaps, and a
\* receipt names the ticket its task wanted and is never withdrawn.
THEOREM WorkflowImplementsGate == Spec => ImplementsTicketGate
<1> QED BY GateInvariant, InitGate, NextGate, PTL
        DEF Spec, ImplementsTicketGate, Gate!Spec
-----------------------------------------------------------------------------
(* What the invariants stand from outside.                                 *)

\* A step of somebody whose task is not among these: it may write an attempt
\* and a ticket, and it leaves rows, decisions and sessions alone.
Outside ==
  /\ UNCHANGED <<tasks, approvals, session>>
  /\ attempts' \in Seq(Attempt) /\ Len(attempts) <= Len(attempts')
  /\ \/ tickets' = tickets
     \/ \E k \in Key, n \in Nat : ~Clashes(k, n) /\ AddTicket(k, n)

LEMMA OutsideTickets ==
  ASSUME TypeInv, KeysDistinct, Outside
  PROVE  /\ tickets \subseteq tickets'
         /\ tickets' \subseteq [key : Key, num : Nat]
         /\ IsFiniteSet(tickets')
         /\ Cardinality(tickets) \in Nat /\ Cardinality(tickets') \in Nat
         /\ Cardinality(tickets) <= Cardinality(tickets')
         /\ KeysDistinct'
<1>1. CASE tickets' = tickets
  BY <1>1, FS_CardinalityType DEF TypeInv, TypeOK, KeysDistinct
<1>2. CASE tickets' # tickets
  <2>1. PICK k \in Key, n \in Nat : ~Clashes(k, n) /\ AddTicket(k, n)
    BY <1>2 DEF Outside
  <2> DEFINE x == [key |-> k, num |-> n]
  <2>2. /\ x \in [key : Key, num : Nat] /\ x.key = k
        /\ tickets' = tickets \cup {x}
        /\ \A y \in tickets : y.key # k
    BY <2>1 DEF Clashes, AddTicket
  <2> HIDE DEF x
  <2>3. IsFiniteSet(tickets') /\ Cardinality(tickets') = Cardinality(tickets) + 1
    BY <2>2, FS_AddElement DEF TypeInv
  <2> QED BY <2>2, <2>3, FS_CardinalityType DEF TypeInv, TypeOK, KeysDistinct
<1> QED BY <1>1, <1>2

LEMMA OutsideKeeps ==
  ASSUME IInv, TruthInv, OriginalInv, CountsAreBehind, ExecutorsApproved, Outside
  PROVE  /\ IInv' /\ TruthInv' /\ OriginalInv'
         /\ CountsAreBehind' /\ ExecutorsApproved'
<1>1. /\ tickets \subseteq tickets'
      /\ tickets' \subseteq [key : Key, num : Nat]
      /\ IsFiniteSet(tickets')
      /\ Cardinality(tickets) \in Nat /\ Cardinality(tickets') \in Nat
      /\ Cardinality(tickets) <= Cardinality(tickets')
      /\ KeysDistinct'
  BY OutsideTickets DEF IInv, TruthInv
<1>2. UNCHANGED <<tasks, approvals, session>>
  BY DEF Outside
<1>3. TypeInv'
  <2>1. TypeOK'
    BY <1>1 DEF Outside, IInv, TypeInv, TypeOK
  <2>2. SessionsOK'
    <3>1. Len(attempts) \in Nat /\ Len(attempts') \in Nat
      BY DEF Outside, IInv, TypeInv, TypeOK
    <3>2. \A w \in Workers : Sound(session'[w], tasks', Len(attempts'))
      BY <1>2, <3>1 DEF Outside, IInv, TypeInv, SessionsOK, Sound
    <3> QED BY <1>2, <3>2 DEF IInv, TypeInv, SessionsOK
  <2> QED BY <1>1, <1>2, <2>1, <2>2 DEF IInv, TypeInv
<1>4. DecisionInv'
  BY <1>2 DEF IInv, DecisionInv, CreatorsAlone, DecisionTaken, OneDecision,
    DecisionsAuthorized, DecidersAuthorized, PendingUntilDecided, ExecutorsGranted,
    Granted, Denied, DeniersDenied, RowsJustified
<1>5. TruthInv'
  BY <1>1, <1>2 DEF TruthInv, WritesFound, Confirmed, FindByKey, ReceiptsStored,
    ReceiptsNameTickets, CompletedHasReceipt, ActionTask
<1>6. OriginalInv' /\ ExecutorsApproved'
  BY <1>2 DEF OriginalInv, Claims, Original, ExecutorsApproved
<1>7. CountsAreBehind'
  BY <1>1, <1>2 DEF CountsAreBehind
<1> QED BY <1>3, <1>4, <1>5, <1>6, <1>7 DEF IInv
=============================================================================
