-------------------------- MODULE TaskOutcomeProofs --------------------------
(***************************************************************************)
(* What an execution leaves behind: proofs that at most one receipt claims *)
(* a ticket as its own, that final states and receipts survive every later *)
(* writer, and that the audit timeline explains the tables, for any number *)
(* of overlapping requests, with any faults.                               *)
(*                                                                         *)
(* Three further parts say what overlap costs.  As long as requests for    *)
(* one task come one after the other, what a request has seen is still so  *)
(* (SeenInv), and the states follow the diagram of README.md.  When they   *)
(* overlap, a request that writes still works on its task alone, up to the *)
(* first resume (OriginInv).  As long as executions of different tasks do  *)
(* not compete for a key or a number, a task that may not rest has a       *)
(* request that carries it on (CarriedInv), and none is left behind.       *)
(***************************************************************************)
EXTENDS TaskTruthProofs

\* A request that inserted the ticket itself and has not stored its receipt.
Claims(w) ==
  session[w].at \in Written \ {"complete"} /\ ~session[w].result.replayed

\* A task whose receipt says that its execution created the ticket.
Original(t) ==
  Exists(t) /\ tasks[t].receipt # NoValue /\ ~tasks[t].receipt.replayed

\* A key has one claim, held by a request or by a receipt.
OriginalInv ==
  /\ \A v, w \in Workers :
       Claims(v) /\ Claims(w) /\ TaskRow(v).preview = TaskRow(w).preview => v = w
  /\ \A t \in Tasks, w \in Workers :
       Original(t) /\ Claims(w) => tasks[t].preview # TaskRow(w).preview
  /\ \A t, u \in Tasks :
       Original(t) /\ Original(u) /\ tasks[t].preview = tasks[u].preview => t = u

\* An approval is stored only while the task is pending, and then wins.
GrantedGoOn ==
  \A t \in Tasks : Granted(t) => tasks[t].state \notin {"FAILED", "REJECTED"}

\* The event with which a call that returned x is confirmed.
CallEvent(t, x) ==
  Record(t, IF x.reconciled THEN "WRITE_RECONCILED" ELSE "TOOL_CALL_SUCCEEDED",
         NoValue)

AuditInv ==
  /\ AuditExplainsEffects
  /\ \A w \in Workers : session[w].at \in {"insert", "succeed"} =>
       ~session[w].result.reconciled
  /\ \A w \in Workers : At(w, "reconciled") => session[w].result.reconciled
  /\ \A w \in Workers : session[w].at \in {"confirm", "receipt"} =>
       CallEvent(session[w].task, session[w].result) \in audit
USE DEF At, TaskRow, Exists

-----------------------------------------------------------------------------
(* One claim for a ticket.                                                 *)

\* A claim begins with an insert.
LEMMA ClaimStep ==
  ASSUME IInv, NEW w \in Workers, Step(w), NEW v \in Workers, Claims(v)'
  PROVE  /\ session[v].at \in Executing
         /\ session'[v].task = session[v].task
         /\ tasks'[session'[v].task].preview = tasks[session[v].task].preview
         /\ Claims(v) \/ (v = w /\ InsertTicket(w))
<1>0. Frame(w) /\ session'[v].at # "idle"
  BY NextFrame DEF IInv, Claims, Written
<1>1. CASE v # w
  <2>1. session'[v] = session[v] /\ session[v].at \in Executing /\ Claims(v)
    BY <1>0, <1>1 DEF Frame, SessionStep, OnlySession, Claims, Written, Executing
  <2> QED BY <1>0, <2>1, ExecutedRow
<1>2. CASE v = w
  <2>1. /\ Moves(session[w].at, session'[w].at)
        /\ session'[w].task = session[w].task
        /\ session[w].at \notin {"find", "count", "reconcile"} =>
             session'[w].result = session[w].result
    BY <1>0, <1>2 DEF Frame, SessionStep, Idle, Claims, Written
  <2>2. session[w].at \in {"find", "insert"} \cup (Written \ {"complete"})
    BY <1>2, <2>1 DEF Moves, Claims, Written
  <2>3. session \in [Workers -> Session]
    BY DEF IInv, TypeInv, SessionsOK
  <2>4. ~At(w, "find")
    <3>1. FindTicket(w) => session'[w].result.replayed
      BY <2>3 DEF FindTicket, GotoWith, Session, Replay, Found
    <3>2. MissTicket(w) => session'[w].at = "count"
      BY <2>3 DEF MissTicket, Goto, Session
    <3> QED BY <1>0, <1>2, <3>1, <3>2, StepFrom DEF Claims, Written, IInv
  <2>5. ~At(w, "reconcile")
    <3>1. FindAfterTimeout(w) => session'[w].result.replayed
      BY <2>3 DEF FindAfterTimeout, GotoWith, Session, Found
    <3> QED BY <1>0, <1>2, <3>1, StepFrom DEF Claims, IInv
  <2>6. At(w, "insert") => InsertTicket(w)
    BY <1>0, <1>2, StepFrom DEF IInv
  <2>7. ~At(w, "insert") => Claims(w)
    BY <1>2, <2>1, <2>2, <2>4, <2>5 DEF Claims, Written
  <2>8. session[w].at \in Executing
    BY <2>2 DEF Executing, Written
  <2> QED BY <1>0, <1>2, <2>1, <2>6, <2>7, <2>8, ExecutedRow
<1> QED BY <1>1, <1>2

\* A receipt becomes original when a claim is stored in it.
LEMMA OriginalStep ==
  ASSUME IInv, NEW w \in Workers, Step(w), NEW t \in Tasks, Original(t)'
  PROVE  /\ Exists(t)
         /\ tasks'[t].preview = tasks[t].preview
         /\ \/ Original(t)
            \/ session[w].task = t /\ Claims(w) /\ At(w, "receipt")
<1>0. Frame(w)
  BY NextFrame DEF IInv
<1>1. Exists(t)
  BY <1>0 DEF Frame, RowsStep, Original
<1>2. CASE tasks'[t].receipt = tasks[t].receipt
  <2>1. Original(t)
    BY <1>1, <1>2 DEF Original
  <2>2. DecisionTaken(t)
    BY <2>1 DEF Original, IInv, DecisionInv, RowsJustified, Granted, DecisionTaken
  <2> QED BY <1>0, <1>1, <2>1, <2>2, DecidedRow
<1>3. CASE tasks'[t].receipt # tasks[t].receipt
  <2>1. /\ At(w, "receipt") /\ session[w].task = t
        /\ tasks'[t].receipt = session[w].result
        /\ tasks'[t].preview = tasks[t].preview
    BY <1>0, <1>1, <1>3 DEF Frame, RowsStep
  <2> QED BY <1>1, <2>1 DEF Claims, Written, Original
<1> QED BY <1>2, <1>3

\* Whoever holds a claim has its ticket.
LEMMA ClaimsHaveTickets ==
  ASSUME TruthInv
  PROVE  /\ \A w \in Workers : Claims(w) => FindByKey(TaskRow(w).preview) # {}
         /\ \A t \in Tasks : Original(t) => FindByKey(tasks[t].preview) # {}
  BY DEF TruthInv, WritesFound, ReceiptsNameTickets, Claims, Original, Confirmed

LEMMA OriginalKept ==
  ASSUME IInv, TruthInv, OriginalInv, NEW w \in Workers, Step(w)
  PROVE  OriginalInv'
<1>1. InsertTicket(w) => FindByKey(TaskRow(w).preview) = {} /\ ~At(w, "receipt")
  BY DEF InsertTicket, Clashes, FindByKey
<1>2. At(w, "receipt") => ~Claims(w)'
  <2>1. At(w, "receipt") => session'[w].at \in {"idle", "complete"}
    BY NextFrame DEF IInv, Frame, SessionStep, Moves, Idle
  <2> QED BY <2>1 DEF Claims, Written
<1>3. ASSUME NEW u \in Workers, NEW v \in Workers, Claims(u)', Claims(v)',
             tasks'[session'[u].task].preview = tasks'[session'[v].task].preview
      PROVE  u = v
  <2>1. /\ TaskRow(u).preview = TaskRow(v).preview
        /\ Claims(u) \/ (u = w /\ InsertTicket(w))
        /\ Claims(v) \/ (v = w /\ InsertTicket(w))
    BY <1>3, ClaimStep
  <2> QED BY <1>1, <2>1, ClaimsHaveTickets DEF OriginalInv
<1>4. ASSUME NEW t \in Tasks, NEW v \in Workers, Original(t)', Claims(v)'
      PROVE  tasks'[t].preview # tasks'[session'[v].task].preview
  <2>1. /\ tasks'[session'[v].task].preview = TaskRow(v).preview
        /\ Claims(v) \/ (v = w /\ InsertTicket(w))
    BY <1>4, ClaimStep
  <2>2. /\ tasks'[t].preview = tasks[t].preview
        /\ Original(t) \/ (session[w].task = t /\ Claims(w) /\ At(w, "receipt"))
    BY <1>4, OriginalStep
  <2>3. CASE Original(t)
    BY <1>1, <2>1, <2>2, <2>3, ClaimsHaveTickets DEF OriginalInv
  <2>4. CASE session[w].task = t /\ Claims(w) /\ At(w, "receipt")
    <3>1. v # w /\ Claims(v)
      BY <1>1, <1>2, <1>4, <2>1, <2>4
    <3> QED BY <2>1, <2>2, <2>4, <3>1 DEF OriginalInv
  <2> QED BY <2>2, <2>3, <2>4
<1>5. ASSUME NEW t \in Tasks, NEW u \in Tasks, Original(t)', Original(u)',
             tasks'[t].preview = tasks'[u].preview
      PROVE  t = u
  <2>1. /\ tasks[t].preview = tasks[u].preview
        /\ Original(t) \/ (session[w].task = t /\ Claims(w))
        /\ Original(u) \/ (session[w].task = u /\ Claims(w))
    BY <1>5, OriginalStep
  <2> QED BY <2>1 DEF OriginalInv
<1> QED BY <1>3, <1>4, <1>5 DEF OriginalInv

LEMMA InitOriginal == Init => OriginalInv
  BY DEF Init, OriginalInv, Original, Claims, Written, Idle

LEMMA NextOriginal ==
  IInv /\ TruthInv /\ OriginalInv /\ [Next]_vars => OriginalInv'
<1> SUFFICES ASSUME IInv, TruthInv, OriginalInv, [Next]_vars PROVE OriginalInv'
  OBVIOUS
<1>1. CASE UNCHANGED vars
  BY <1>1 DEF vars, OriginalInv, Original, Claims
<1> QED BY <1>1, OriginalKept DEF Next, Step

\* A key has one claim to its ticket, held by the request that inserted it and
\* then by the receipt that this request stores.
THEOREM OriginalInvariant == Spec => []OriginalInv
  BY InitOriginal, NextOriginal, DecisionInvariant, TruthInvariant, PTL DEF Spec

\* Of all tasks with one idempotency key, at most one has a receipt that does
\* not say replayed, however many executions overlapped, timed out or died.
THEOREM OneReceiptIsOriginal == Spec => []OneOriginalReceipt
<1>1. OriginalInv => OneOriginalReceipt
  BY DEF OriginalInv, Original, OneOriginalReceipt
<1> QED BY <1>1, OriginalInvariant, PTL
-----------------------------------------------------------------------------
(* Final states and receipts.                                              *)

\* The states that a request can give to a task that is decided.
LEMMA DecidedState ==
  ASSUME IInv, NEW w \in Workers, Step(w), NEW t \in Tasks, Exists(t),
         DecisionTaken(t), tasks'[t].state # tasks[t].state
  PROVE  /\ session[w].task = t
         /\ Stores(session[w].at, tasks[t], tasks'[t].state)
         /\ session[w].at \notin Creating
<1>0. Frame(w)
  BY NextFrame DEF IInv
<1> QED BY <1>0 DEF Frame, RowsStep, IInv, DecisionInv, CreatorsAlone

LEMMA GrantedKept ==
  ASSUME IInv, GrantedGoOn, NEW w \in Workers, Step(w)
  PROVE  GrantedGoOn'
<1>0. Frame(w)
  BY NextFrame DEF IInv
<1> SUFFICES ASSUME NEW t \in Tasks, Granted(t)'
             PROVE  tasks'[t].state \notin {"FAILED", "REJECTED"}
  BY DEF GrantedGoOn
<1>1. CASE Granted(t)
  <2>1. Exists(t) /\ DecisionTaken(t) /\ ~Denied(t)
    BY <1>1 DEF Granted, Denied, DecisionTaken, IInv, DecisionInv,
                DecisionsAuthorized, OneDecision
  <2>2. CASE tasks'[t].state = tasks[t].state
    BY <1>1, <2>2 DEF GrantedGoOn
  <2>3. CASE tasks'[t].state # tasks[t].state
    <3>1. /\ session[w].task = t /\ session[w].at \notin Creating
          /\ Stores(session[w].at, tasks[t], tasks'[t].state)
      BY <2>1, <2>3, DecidedState
    <3>2. ~At(w, "mark_rejected")
      BY <2>1, <3>1 DEF IInv, DecisionInv, DeniersDenied
    <3> QED BY <3>1, <3>2 DEF Stores, Creating
  <2> QED BY <2>2, <2>3
<1>2. CASE ~Granted(t)
  <2>1. /\ approvals' # approvals
        /\ session[w].at \in {"approve", "reject"}
        /\ StoreApproval(w) \/ StoreRejection(w)
    BY <1>0, <1>2 DEF Frame, Granted
  <2>2. session[w].task = t /\ ~DecisionTaken(t) /\ tasks' = tasks
    BY <1>2, <2>1 DEF StoreApproval, StoreRejection, StoreDecision, Granted
  <2> QED BY <2>1, <2>2 DEF IInv, DecisionInv, PendingUntilDecided
<1> QED BY <1>1, <1>2

LEMMA NextGranted ==
  IInv /\ GrantedGoOn /\ [Next]_vars => GrantedGoOn'
<1> SUFFICES ASSUME IInv, GrantedGoOn, [Next]_vars PROVE GrantedGoOn'
  OBVIOUS
<1>1. CASE UNCHANGED vars
  BY <1>1 DEF vars, GrantedGoOn, Granted
<1> QED BY <1>1, GrantedKept DEF Next, Step

\* A task whose approval is stored is neither FAILED nor REJECTED, whoever else
\* was creating or deciding it.
THEOREM GrantedInvariant == Spec => []GrantedGoOn
<1>1. Init => GrantedGoOn
  BY DEF Init, GrantedGoOn, Granted
<1> QED BY <1>1, NextGranted, DecisionInvariant, PTL DEF Spec

LEMMA StoredState ==
  ASSUME TypeInv, NEW w \in Workers, ~At(w, "idle"), NEW row \in Row,
         NEW state, Store(w, row, state)
  PROVE  tasks'[session[w].task].state = state
<1>1. session[w].task \in Tasks /\ tasks \in [Tasks -> Row \cup {NoValue}]
  BY InProgress DEF TypeInv, TypeOK
<1> QED BY <1>1 DEF Store, Row

\* A request executes a task only once the task has left APPROVAL_PENDING.
ExecutorsApproved ==
  \A w \in Workers : session[w].at \in Executing =>
    TaskRow(w).state \in ApprovedStates

LEMMA ApprovedKept ==
  ASSUME IInv, ExecutorsApproved, NEW w \in Workers, Step(w)
  PROVE  ExecutorsApproved'
<1>0. Frame(w)
  BY NextFrame DEF IInv
<1> SUFFICES ASSUME NEW v \in Workers, session'[v].at \in Executing
             PROVE  tasks'[session'[v].task].state \in ApprovedStates
  BY DEF ExecutorsApproved
<1>1. CASE session[v].at \in Executing /\ session'[v].task = session[v].task
  <2> DEFINE t == session[v].task
  <2>1. /\ t \in Tasks /\ Exists(t) /\ Granted(t) /\ ~Denied(t)
        /\ DecisionTaken(t)
        /\ tasks[t].state \in ApprovedStates
    BY <1>0, <1>1, ExecutedRow
    DEF Granted, Denied, DecisionTaken, IInv, DecisionInv, OneDecision, ExecutorsApproved
  <2>2. CASE tasks'[t].state # tasks[t].state
    <3>1. /\ Stores(session[w].at, tasks[t], tasks'[t].state)
          /\ session[w].at \notin Creating
          /\ session[w].task = t
      BY <2>1, <2>2, DecidedState
    <3>2. ~At(w, "mark_rejected")
      BY <2>1, <3>1 DEF IInv, DecisionInv, DeniersDenied
    <3> QED BY <1>1, <3>1, <3>2 DEF Stores, Creating, ApprovedStates
  <2> QED BY <1>1, <2>1, <2>2
<1>2. CASE ~(session[v].at \in Executing /\ session'[v].task = session[v].task)
  <2>1. v = w
    BY <1>0, <1>2 DEF Frame, SessionStep, OnlySession
  <2>2. session'[w].at # "idle"
    BY <2>1 DEF Executing
  <2>3. At(w, "idle") \/ At(w, "mark_approved")
    BY <1>0, <1>2, <2>1, <2>2
    DEF Frame, SessionStep, Moves, Executing, Idle
  <2>4. CASE At(w, "idle")
    <3>1. Arrive(w)
      BY <2>2, <2>4, StepFrom DEF IInv
    <3>2. session \in [Workers -> Session]
      BY DEF IInv, TypeInv, SessionsOK
    <3>3. PICK t \in Tasks, actor \in Users : Resume(w, t, actor)
      BY <2>1, <3>1, <3>2
      DEF Arrive, CreateTask, Approve, Reject, ReadForDecision, Begin, Executing
    <3>4. session'[w].task = t /\ tasks' = tasks /\ tasks[t].state = "APPROVED"
      BY <3>2, <3>3 DEF Resume, ReadForDecision, MayDecide, Begin
    <3> QED BY <2>1, <3>4 DEF ApprovedStates
  <2>5. CASE At(w, "mark_approved")
    <3>1. MarkApproved(w)
      BY <2>2, <2>5, StepFrom DEF IInv
    <3>2. tasks'[session[w].task].state = "APPROVED"
      BY <2>5, <3>1, InProgress, StoredState DEF MarkApproved, Transition, IInv
    <3>3. session'[w].task = session[w].task
      BY <1>0, <2>2, <2>5 DEF Frame, SessionStep, Idle
    <3> QED BY <2>1, <3>2, <3>3 DEF ApprovedStates
  <2> QED BY <2>3, <2>4, <2>5
<1> QED BY <1>1, <1>2

LEMMA ExecutorsInvariant == Spec => []ExecutorsApproved
<1>1. Init => ExecutorsApproved
  BY DEF Init, Idle, ExecutorsApproved, Executing
<1>2. IInv /\ ExecutorsApproved /\ [Next]_vars => ExecutorsApproved'
  <2> SUFFICES ASSUME IInv, ExecutorsApproved, [Next]_vars PROVE ExecutorsApproved'
    OBVIOUS
  <2>1. CASE UNCHANGED vars
    BY <2>1 DEF vars, ExecutorsApproved
  <2> QED BY <2>1, ApprovedKept DEF Next, Step
<1> QED BY <1>1, <1>2, DecisionInvariant, PTL DEF Spec

LEMMA FinalStatesStay ==
  ASSUME IInv, GrantedGoOn, NEW w \in Workers, Step(w), NEW t \in Tasks, Exists(t),
         tasks[t].state \in {"FAILED", "REJECTED"}
  PROVE  tasks'[t].state = tasks[t].state
<1> SUFFICES ASSUME tasks'[t].state # tasks[t].state PROVE FALSE
  OBVIOUS
<1>0. Frame(w)
  BY NextFrame DEF IInv
<1>1. /\ session[w].task = t
      /\ Stores(session[w].at, tasks[t], tasks'[t].state)
  BY <1>0 DEF Frame, RowsStep
<1>2. session[w].at \notin Creating
  BY <1>1 DEF IInv, DecisionInv, CreatorsAlone, CreationState
<1>3. session[w].at \notin Executing \cup {"mark_approved"}
  BY <1>1 DEF IInv, DecisionInv, ExecutorsGranted, GrantedGoOn
<1>4. At(w, "mark_rejected") /\ tasks'[t].state = "REJECTED"
  BY <1>1, <1>2, <1>3 DEF Stores, Creating, Executing
<1>5. Denied(t)
  BY <1>1, <1>4 DEF IInv, DecisionInv, DeniersDenied
<1> QED BY <1>4, <1>5 DEF IInv, DecisionInv, RowsJustified

LEMMA ReceiptsStay ==
  ASSUME IInv, TruthInv, NEW w \in Workers, Step(w), NEW t \in Tasks, Exists(t),
         tasks[t].receipt # NoValue
  PROVE  /\ tasks'[t].receipt # NoValue
         /\ tasks'[t].receipt.num = tasks[t].receipt.num
<1>0. Frame(w)
  BY NextFrame DEF IInv
<1>1. CASE tasks'[t].receipt = tasks[t].receipt
  BY <1>1
<1>2. CASE /\ At(w, "receipt") /\ session[w].task = t
           /\ tasks'[t].receipt = session[w].result
  <2>1. session[w].at \in Numbered /\ session[w].at \in Written
    BY <1>2 DEF Numbered, Attempted, InGateway, Written
  <2>2. session[w].result # NoValue
    BY <2>1 DEF IInv, TypeInv, SessionsOK, Sound
  <2>3. PICK x \in tickets : /\ x.key = tasks[t].preview
                             /\ x.num = session[w].result.num
    BY <1>2, <2>1 DEF TruthInv, WritesFound, Confirmed, FindByKey
  <2>4. PICK y \in tickets : /\ y.key = tasks[t].preview
                             /\ y.num = tasks[t].receipt.num
    BY DEF TruthInv, ReceiptsNameTickets, FindByKey
  <2>5. x = y
    BY <2>3, <2>4 DEF TruthInv, KeysDistinct
  <2> QED BY <1>2, <2>2, <2>3, <2>4, <2>5
<1> QED BY <1>0, <1>1, <1>2 DEF Frame, RowsStep

\* FAILED and REJECTED are final, and a stored receipt never comes to name
\* another ticket, although later writers overwrite both columns unseen.
THEOREM OutcomesStayStable == Spec => OutcomesAreStable
<1>1. IInv /\ TruthInv /\ GrantedGoOn /\ [Next]_vars =>
        [\A t \in Tasks : Exists(t) =>
           /\ tasks[t].state \in {"FAILED", "REJECTED"} =>
                tasks'[t].state = tasks[t].state
           /\ tasks[t].receipt # NoValue =>
                /\ tasks'[t].receipt # NoValue
                /\ tasks'[t].receipt.num = tasks[t].receipt.num]_vars
  BY FinalStatesStay, ReceiptsStay DEF Next, Step
<1> QED BY <1>1, DecisionInvariant, TruthInvariant, GrantedInvariant, PTL
        DEF Spec, OutcomesAreStable
-----------------------------------------------------------------------------
(* The audit timeline.                                                     *)

LEMMA DecisionsAudited ==
  ASSUME IInv, AuditInv, NEW w \in Workers, Frame(w), NEW a \in approvals'
  PROVE  Record(a.task, IF a.decision = "approved" THEN "ACTION_APPROVED"
                                                   ELSE "ACTION_REJECTED",
                a.actor) \in audit'
<1>1. CASE a \in approvals
  BY <1>1 DEF Frame, AuditInv, AuditExplainsEffects
<1>2. CASE a \notin approvals /\ StoreApproval(w)
  <2>1. /\ a = [task |-> session[w].task, decision |-> "approved",
                actor |-> session[w].actor]
        /\ Record(session[w].task, "ACTION_APPROVED", session[w].actor) \in audit'
    BY <1>2 DEF StoreApproval, StoreDecision, Log
  <2> QED BY <2>1
<1>3. CASE a \notin approvals /\ StoreRejection(w)
  <2>1. /\ a = [task |-> session[w].task, decision |-> "rejected",
                actor |-> session[w].actor]
        /\ Record(session[w].task, "ACTION_REJECTED", session[w].actor) \in audit'
    BY <1>3 DEF StoreRejection, StoreDecision, Log
  <2> QED BY <2>1
<1> QED BY <1>1, <1>2, <1>3 DEF Frame

LEMMA AttemptsAudited ==
  ASSUME IInv, EffectsInv, AuditInv, NEW w \in Workers, Step(w), NEW i \in DOMAIN attempts'
  PROVE  Record(attempts'[i].task, "TOOL_CALL_STARTED",
                tasks'[attempts'[i].task].user) \in audit'
<1>0. Frame(w)
  BY NextFrame DEF IInv
<1>1. CASE i \in DOMAIN attempts
  <2>1. attempts'[i].task = attempts[i].task
    BY <1>0, <1>1, AttemptsKept DEF IInv
  <2>2. Granted(attempts[i].task)
    BY <1>1 DEF EffectsInv, AttemptsGranted
  <2>3. attempts[i].task \in Tasks /\ Exists(attempts[i].task)
    BY <2>2 DEF Granted, IInv, TypeInv, TypeOK, Approval, DecisionInv,
                DecisionsAuthorized
  <2>4. tasks'[attempts[i].task].user = tasks[attempts[i].task].user
    BY <1>0, <2>3 DEF Frame, RowsStep
  <2> QED BY <1>0, <1>1, <2>1, <2>4 DEF Frame, AuditInv, AuditExplainsEffects
<1>2. CASE i \notin DOMAIN attempts
  <2>1. At(w, "open") /\ attempts'[i] = NewAttempt(session[w].task, TaskRow(w).preview)
    BY <1>0, <1>2, AttemptsKept DEF IInv
  <2>2. OpenAttempt(w)
    <3>1. attempts' = Append(attempts, NewAttempt(session[w].task, TaskRow(w).preview))
          /\ session'[w].attempt = Len(attempts) + 1
      BY <1>0, <1>2, <2>1 DEF Frame, AttemptsStep
    <3>2. session'[w] # Idle
      BY <3>1 DEF Idle, IInv, TypeInv, TypeOK
    <3>3. session'[w].at # "idle"
      BY <1>0, <2>1, <3>2 DEF Frame, SessionStep, Moves
    <3> QED BY <2>1, <3>3, StepFrom DEF IInv
  <2> QED BY <2>1, <2>2 DEF OpenAttempt, Log, NewAttempt
<1> QED BY <1>1, <1>2

\* The steps that give an attempt an outcome.
LEMMA CallStep ==
  ASSUME TypeInv, NEW w \in Workers, Step(w), attempts' # attempts
  PROVE  \/ OpenAttempt(w) \/ RecordSuccess(w) \/ RecordTimeout(w)
         \/ RecordReconciled(w)
         \/ SetAttempt(w, "FAILED_UNCONFIRMED")
<1>1. Proceed(w)
  BY DEF Step, Arrive, CreateTask, Approve, Reject, Resume, ReadForDecision,
         CreationFails, RequestDies
<1> QED BY <1>1
     DEF Proceed, CreateContract, GatherDocuments, StartAnalysis, Advance,
         RetrieveDocuments, Analyze, RejectAnalysis, ProposalReady,
         ConcludeCreation, StoreApproval, StoreRejection, StoreDecision,
         DecisionConflict, MarkApproved, MarkRejected, PauseAfterApproval,
         LogResume, BeginExecution, FindTicket, MissTicket, CountTickets,
         InsertTicket, FindAfterTimeout, ConfirmTicket, RecordReceipt,
         CompleteAction, ExecutionFails

LEMMA StatusAudited ==
  ASSUME IInv, EffectsInv, AuditInv, NEW w \in Workers, Step(w),
         NEW i \in DOMAIN attempts', attempts'[i].status \in DOMAIN StatusEvents
  PROVE  Record(attempts'[i].task, StatusEvents[attempts'[i].status], NoValue)
           \in audit'
<1>0. Frame(w)
  BY NextFrame DEF IInv
<1>1. i \in DOMAIN attempts
  <2>1. i \notin DOMAIN attempts =>
          attempts'[i] = NewAttempt(session[w].task, TaskRow(w).preview)
    BY <1>0, AttemptsKept DEF IInv
  <2> QED BY <2>1 DEF NewAttempt, StatusEvents
<1>2. attempts'[i].task = attempts[i].task
  BY <1>0, <1>1, AttemptsKept DEF IInv
<1>3. CASE attempts'[i].status = attempts[i].status
  BY <1>0, <1>1, <1>2, <1>3 DEF Frame, AuditInv, AuditExplainsEffects
<1>4. CASE attempts'[i].status # attempts[i].status
  <2>1. i = session[w].attempt /\ session[w].at \in Written
    BY <1>0, <1>1, <1>4, AttemptsKept DEF IInv
  <2>2. attempts[i].task = session[w].task
    BY <2>1 DEF EffectsInv, AttemptsAnnounce, Attempted, InGateway, Written
  <2>3. attempts \in Seq(Attempt)
    BY DEF IInv, TypeInv, TypeOK
  <2>4. ASSUME NEW status, SetAttempt(w, status)
        PROVE  attempts'[i].status = status
    <3>1. attempts[i] \in Attempt
      BY <1>1, <2>3
    <3>2. attempts'[i] = [attempts[i] EXCEPT !.status = status]
      BY <1>1, <2>1, <2>3, <2>4 DEF SetAttempt
    <3> QED BY <3>1, <3>2 DEF Attempt
  <2>5. PICK status \in DOMAIN StatusEvents :
          SetAttempt(w, status) /\ Log(w, StatusEvents[status], NoValue)
    <3>1. ~OpenAttempt(w)
      BY <2>1 DEF OpenAttempt, Written
    <3>2. ~SetAttempt(w, "FAILED_UNCONFIRMED")
      BY <2>4 DEF StatusEvents
    <3>3. RecordSuccess(w) \/ RecordTimeout(w) \/ RecordReconciled(w)
      BY <1>4, <3>1, <3>2, CallStep DEF IInv
    <3> QED BY <3>3 DEF RecordSuccess, RecordTimeout, RecordReconciled, StatusEvents
  <2> QED BY <1>2, <2>2, <2>4, <2>5 DEF Log
<1> QED BY <1>3, <1>4

\* At that place only RecordReceipt writes.
LEMMA ReceiptStep ==
  ASSUME TypeInv, NEW w \in Workers, Step(w), At(w, "receipt"), tasks' # tasks
  PROVE  RecordReceipt(w)
<1>1. Proceed(w)
  BY DEF Step, Arrive, CreateTask, Approve, Reject, Resume, ReadForDecision,
         CreationFails, RequestDies, Creating
<1> QED BY <1>1
     DEF Proceed, CreateContract, GatherDocuments, StartAnalysis, Advance,
         RetrieveDocuments, Analyze, RejectAnalysis, ProposalReady,
         ConcludeCreation, StoreApproval, StoreRejection, StoreDecision,
         DecisionConflict, MarkApproved, MarkRejected, PauseAfterApproval,
         LogResume, BeginExecution, OpenAttempt, FindTicket, MissTicket,
         CountTickets, InsertTicket, RecordSuccess, RecordTimeout,
         FindAfterTimeout, RecordReconciled, ConfirmTicket,
         CompleteAction, ExecutionFails

LEMMA ReceiptsAudited ==
  ASSUME IInv, TruthInv, AuditInv, NEW w \in Workers, Step(w),
         NEW t \in Tasks, tasks'[t] # NoValue, tasks'[t].receipt # NoValue
  PROVE  /\ Record(t, "POSTCONDITION_CONFIRMED", NoValue) \in audit'
         /\ CallEvent(t, tasks'[t].receipt) \in audit'
<1>0. Frame(w)
  BY NextFrame DEF IInv
<1>1. tasks[t] # NoValue
  BY <1>0 DEF Frame, RowsStep
<1>2. CASE tasks'[t].receipt = tasks[t].receipt
  BY <1>0, <1>1, <1>2 DEF Frame, AuditInv, AuditExplainsEffects, CallEvent
<1>3. CASE tasks'[t].receipt # tasks[t].receipt
  <2>1. /\ At(w, "receipt") /\ session[w].task = t
        /\ tasks'[t].receipt = session[w].result
    BY <1>0, <1>1, <1>3 DEF Frame, RowsStep
  <2>2. RecordReceipt(w)
    BY <1>3, <2>1, ReceiptStep DEF IInv
  <2> QED BY <1>0, <2>1, <2>2 DEF Frame, RecordReceipt, Log, AuditInv
<1> QED BY <1>2, <1>3
\* What the sessions know of the call they made.
LEMMA CallsAudited ==
  ASSUME IInv, AuditInv, NEW w \in Workers, Step(w)
  PROVE  /\ \A v \in Workers : session'[v].at \in {"insert", "succeed"} =>
              ~session'[v].result.reconciled
         /\ \A v \in Workers : session'[v].at = "reconciled" =>
              session'[v].result.reconciled
         /\ \A v \in Workers : session'[v].at \in {"confirm", "receipt"} =>
              CallEvent(session'[v].task, session'[v].result) \in audit'
<1>0. Frame(w) /\ session \in [Workers -> Session]
  BY NextFrame DEF IInv, TypeInv, SessionsOK
<1>1. \A v \in Workers : v # w => session'[v] = session[v]
  BY <1>0 DEF Frame, SessionStep, OnlySession
<1>2. session'[w].at \in {"insert", "succeed", "reconciled", "confirm", "receipt"} =>
        /\ session'[w].at # "idle"
        /\ Moves(session[w].at, session'[w].at)
        /\ session'[w].task = session[w].task
        /\ session[w].at \notin {"find", "count", "reconcile"} =>
             session'[w].result = session[w].result
  BY <1>0 DEF Frame, SessionStep, Idle
<1>3. ASSUME session'[w].at \in {"insert", "succeed"}
      PROVE  ~session'[w].result.reconciled
  <2>1. At(w, "find") \/ At(w, "count") \/ At(w, "insert")
    BY <1>2, <1>3 DEF Moves
  <2>2. FindTicket(w) => ~session'[w].result.reconciled
    BY <1>0 DEF FindTicket, GotoWith, Session, Replay, Found
  <2>3. MissTicket(w) => session'[w].at = "count"
    BY <1>0 DEF MissTicket, Goto, Session
  <2>4. CountTickets(w) => ~session'[w].result.reconciled
    BY <1>0 DEF CountTickets, GotoWith, Session, Found
  <2>5. At(w, "insert") => ~session'[w].result.reconciled
    BY <1>2, <1>3 DEF AuditInv
  <2> QED BY <1>2, <1>3, <2>1, <2>2, <2>3, <2>4, <2>5, StepFrom DEF IInv
<1>4. ASSUME session'[w].at = "reconciled"
      PROVE  session'[w].result.reconciled
  <2>1. FindAfterTimeout(w)
    BY <1>2, <1>4, StepFrom DEF Moves, IInv
  <2> QED BY <1>0, <2>1 DEF FindAfterTimeout, GotoWith, Session, Found
<1>5. ASSUME session'[w].at \in {"confirm", "receipt"}
      PROVE  CallEvent(session'[w].task, session'[w].result) \in audit'
  <2>1. /\ session'[w].result = session[w].result
        /\ session'[w].task = session[w].task
        /\ At(w, "succeed") \/ At(w, "reconciled") \/ At(w, "confirm")
    BY <1>2, <1>5 DEF Moves
  <2>2. CASE At(w, "succeed")
    <3>1. RecordSuccess(w) /\ ~session[w].result.reconciled
      BY <1>2, <1>5, <2>2, StepFrom DEF AuditInv, IInv
    <3> QED BY <2>1, <3>1 DEF RecordSuccess, Log, CallEvent
  <2>3. CASE At(w, "reconciled")
    <3>1. RecordReconciled(w) /\ session[w].result.reconciled
      BY <1>2, <1>5, <2>3, StepFrom DEF AuditInv, IInv
    <3> QED BY <2>1, <3>1 DEF RecordReconciled, Log, CallEvent
  <2>4. CASE At(w, "confirm")
    BY <1>0, <2>1, <2>4 DEF AuditInv, Frame
  <2> QED BY <2>1, <2>2, <2>3, <2>4
<1> QED BY <1>0, <1>1, <1>3, <1>4, <1>5 DEF AuditInv, Frame

LEMMA AuditKept ==
  ASSUME IInv, TruthInv, EffectsInv, AuditInv, NEW w \in Workers, Step(w)
  PROVE  AuditInv'
<1>1. Frame(w)
  BY NextFrame DEF IInv
<1>2. AuditExplainsEffects'
  BY <1>1, DecisionsAudited, AttemptsAudited, StatusAudited, ReceiptsAudited
  DEF AuditExplainsEffects, CallEvent
<1> QED BY <1>2, CallsAudited DEF AuditInv

LEMMA InitAudit == Init => AuditInv
<1> SUFFICES ASSUME Init PROVE AuditInv
  OBVIOUS
<1>1. \A w \in Workers : session[w].at = "idle"
  BY DEF Init, Idle
<1>2. AuditExplainsEffects
  BY DEF Init, AuditExplainsEffects
<1> QED BY <1>1, <1>2 DEF AuditInv

LEMMA NextAudit ==
  IInv /\ TruthInv /\ EffectsInv /\ AuditInv /\ [Next]_vars => AuditInv'
<1> SUFFICES ASSUME IInv, TruthInv, EffectsInv, AuditInv, [Next]_vars
             PROVE  AuditInv'
  OBVIOUS
<1>1. CASE UNCHANGED vars
  BY <1>1 DEF vars, AuditInv, AuditExplainsEffects
<1> QED BY <1>1, AuditKept DEF Next, Step

\* The event that a receipt needs is in the timeline as soon as the call of the
\* gateway has been recorded, before the receipt is stored.
THEOREM AuditInvariant == Spec => []AuditInv
  BY InitAudit, NextAudit, DecisionInvariant, TruthInvariant, EffectsInvariant,
     PTL DEF Spec

\* Every stored decision, attempt and receipt has its event, committed before
\* it or with it and naming the actor who is answerable for it, at every
\* moment and whatever died or was refused.
THEOREM EffectsAreAudited == Spec => []AuditExplainsEffects
<1>1. AuditInv => AuditExplainsEffects
  BY DEF AuditInv
<1> QED BY <1>1, AuditInvariant, PTL
-----------------------------------------------------------------------------
(* Requests for one task, one after the other.                             *)

\* No two requests in progress are for the same task.
OneRequestPerTask ==
  \A v, w \in Workers :
    session[v].task = session[w].task /\ session[v].task # NoValue => v = w

\* The state in which a request at a place finds its task.
FoundIn(place, state) ==
  \/ place = "contract" /\ state = "RECEIVED"
  \/ place = "gather" /\ state = "CONTRACT_CREATED"
  \/ place \in {"retrieve", "verify"} /\ state = "GATHERING"
  \/ place \in {"analyze", "judge"} /\ state = "VERIFYING"
  \/ place = "conclude" /\ state = "PROPOSAL_READY"
  \/ place \in Deciding /\ state = "APPROVAL_PENDING"
  \/ place \in {"pause", "resume", "execute"} /\ state = "APPROVED"
  \/ place \in {"open", "find", "count", "insert", "succeed", "timed_out"}
       /\ state = "EXECUTING"
  \/ place \in {"reconcile", "reconciled"} /\ state = "RECONCILING"
  \/ place \in {"confirm", "receipt", "complete"} /\ state = "CONFIRMING"

\* What the request of w has seen is still so.
Sees(w) ==
  ~At(w, "idle") =>
    /\ session[w].seen = TaskRow(w).state
    /\ FoundIn(session[w].at, session[w].seen)

SeenInv == \A w \in Workers : Sees(w)

\* The request of w ends, or goes on to a place that shows the state of its task.
GoesOn(w) ==
  \/ session'[w] = Idle
  \/ /\ session'[w].task = session[w].task
     /\ session'[w].seen = tasks'[session[w].task].state
     /\ FoundIn(session'[w].at, session'[w].seen)

\* A step of w that keeps to the diagram.
Proper(w) ==
  /\ GoesOn(w)
  /\ \/ tasks'[session[w].task].state = TaskRow(w).state
     \/ <<TaskRow(w).state, tasks'[session[w].task].state>> \in DocumentedEdges

LEMMA NewSession ==
  ASSUME TypeInv, NEW w \in Workers, NEW place, NEW state
  PROVE  /\ Goto(w, place) => /\ session'[w].at = place
                              /\ session'[w].task = session[w].task
                              /\ session'[w].seen = session[w].seen
         /\ GotoSeeing(w, place, state) =>
                              /\ session'[w].at = place
                              /\ session'[w].task = session[w].task
                              /\ session'[w].seen = state
         /\ GotoWith(w, place, state) =>
                              /\ session'[w].at = place
                              /\ session'[w].task = session[w].task
                              /\ session'[w].seen = session[w].seen
         /\ Finish(w) => session'[w] = Idle
<1>1. session \in [Workers -> Session] /\ session[w] \in Session
  BY DEF TypeInv, SessionsOK
<1>2. Goto(w, place) => /\ session'[w].at = place
                        /\ session'[w].task = session[w].task
                        /\ session'[w].seen = session[w].seen
  BY <1>1 DEF Goto, Session
<1>3. GotoSeeing(w, place, state) => /\ session'[w].at = place
                                     /\ session'[w].task = session[w].task
                                     /\ session'[w].seen = state
  BY <1>1 DEF GotoSeeing, Session
<1>4. GotoWith(w, place, state) => /\ session'[w].at = place
                                   /\ session'[w].task = session[w].task
                                   /\ session'[w].seen = session[w].seen
  BY <1>1 DEF GotoWith, Session
<1>5. Finish(w) => session'[w] = Idle
  BY <1>1 DEF Finish
<1> QED BY <1>2, <1>3, <1>4, <1>5

\* A transition along an edge to the next place, or to the end.
LEMMA ProperTransition ==
  ASSUME TypeInv, NEW w \in Workers, ~At(w, "idle"), NEW row \in Row,
         NEW state, NEW actor, Transition(w, row, state, actor),
         <<TaskRow(w).state, state>> \in DocumentedEdges,
         \/ Finish(w)
         \/ \E place : GotoSeeing(w, place, state) /\ FoundIn(place, state)
  PROVE  Proper(w)
<1>1. tasks'[session[w].task].state = state
  BY StoredState DEF Transition
<1>2. GoesOn(w)
  BY <1>1, NewSession DEF GoesOn
<1> QED BY <1>1, <1>2 DEF Proper

\* A new state that is stored without an event, likewise.
LEMMA ProperStore ==
  ASSUME TypeInv, NEW w \in Workers, ~At(w, "idle"), NEW state,
         Store(w, TaskRow(w), state),
         <<TaskRow(w).state, state>> \in DocumentedEdges,
         \/ Finish(w)
         \/ \E place : GotoSeeing(w, place, state) /\ FoundIn(place, state)
  PROVE  Proper(w)
<1>1. tasks'[session[w].task].state = state
  BY InProgress, StoredState
<1>2. GoesOn(w)
  BY <1>1, NewSession DEF GoesOn
<1> QED BY <1>1, <1>2 DEF Proper

\* A step that leaves the state alone.
LEMMA ProperStay ==
  ASSUME TypeInv, NEW w \in Workers, Sees(w), ~At(w, "idle"),
         tasks'[session[w].task].state = TaskRow(w).state,
         \/ Finish(w)
         \/ \E place : /\ FoundIn(place, session[w].seen)
                       /\ \/ Goto(w, place)
                          \/ \E result : GotoWith(w, place, result)
  PROVE  Proper(w)
<1>1. GoesOn(w)
  <2>1. CASE Finish(w)
    BY <2>1, NewSession DEF GoesOn
  <2>2. ASSUME NEW place, NEW result, FoundIn(place, session[w].seen),
               Goto(w, place) \/ GotoWith(w, place, result)
        PROVE  GoesOn(w)
    <3>1. /\ session'[w].at = place
          /\ session'[w].task = session[w].task
          /\ session'[w].seen = session[w].seen
      BY <2>2, NewSession
    <3> QED BY <2>2, <3>1 DEF GoesOn, Sees
  <2> QED BY <2>1, <2>2
<1> QED BY <1>1 DEF Proper
LEMMA CreationProper ==
  ASSUME TypeInv, NEW w \in Workers, Sees(w),
         \/ CreateContract(w) \/ GatherDocuments(w) \/ StartAnalysis(w)
         \/ RejectAnalysis(w) \/ ConcludeCreation(w) \/ CreationFails(w)
  PROVE  Proper(w)
<1>1. ~At(w, "idle") => TaskRow(w) \in Row /\ FoundIn(session[w].at, TaskRow(w).state)
  BY InProgress DEF Sees
<1>2. CASE CreateContract(w)
  <2>1. /\ At(w, "contract") /\ TaskRow(w).state = "RECEIVED"
        /\ FoundIn("gather", "CONTRACT_CREATED")
    BY <1>1, <1>2 DEF CreateContract, Advance, FoundIn, Deciding
  <2> QED BY <1>1, <1>2, <2>1, ProperTransition
          DEF CreateContract, Advance, DocumentedEdges
<1>3. CASE GatherDocuments(w)
  <2>1. /\ At(w, "gather") /\ TaskRow(w).state = "CONTRACT_CREATED"
        /\ FoundIn("retrieve", "GATHERING")
    BY <1>1, <1>3 DEF GatherDocuments, Advance, FoundIn, Deciding
  <2> QED BY <1>1, <1>3, <2>1, ProperTransition
          DEF GatherDocuments, Advance, DocumentedEdges
<1>4. CASE StartAnalysis(w)
  <2>1. /\ At(w, "verify") /\ TaskRow(w).state = "GATHERING"
        /\ FoundIn("analyze", "VERIFYING")
    BY <1>1, <1>4 DEF StartAnalysis, Advance, FoundIn, Deciding
  <2> QED BY <1>1, <1>4, <2>1, ProperTransition
          DEF StartAnalysis, Advance, DocumentedEdges
<1>5. CASE RejectAnalysis(w)
  <2>1. At(w, "judge") /\ TaskRow(w).state = "VERIFYING"
    BY <1>1, <1>5 DEF RejectAnalysis, FoundIn, Deciding
  <2> QED BY <1>1, <1>5, <2>1, ProperTransition
          DEF RejectAnalysis, DocumentedEdges, CreationState
<1>6. CASE ConcludeCreation(w)
  <2>1. At(w, "conclude") /\ TaskRow(w).state = "PROPOSAL_READY"
    BY <1>1, <1>6 DEF ConcludeCreation, FoundIn, Deciding
  <2>2. <<TaskRow(w).state, Conclusion(TaskRow(w))>> \in DocumentedEdges
    BY <2>1 DEF Conclusion, DocumentedEdges
  <2> QED BY <1>1, <1>6, <2>1, <2>2, ProperTransition DEF ConcludeCreation
<1>7. CASE CreationFails(w)
  <2>1. ~At(w, "idle") /\ TaskRow(w).state \in CreationState
    BY <1>1, <1>7 DEF CreationFails, Creating, CreationState, FoundIn, Deciding
  <2>2. <<TaskRow(w).state, "FAILED">> \in DocumentedEdges
    BY <2>1 DEF DocumentedEdges
  <2>3. Store(w, TaskRow(w), "FAILED") /\ Finish(w)
    BY <1>7 DEF CreationFails
  <2> QED BY <2>1, <2>2, <2>3, ProperStore
<1> QED BY <1>2, <1>3, <1>4, <1>5, <1>6, <1>7

LEMMA ProposalProper ==
  ASSUME TypeInv, NEW w \in Workers, Sees(w), ProposalReady(w)
  PROVE  Proper(w)
<1> DEFINE row == [TaskRow(w) EXCEPT !.preview = PreviewOf(TaskRow(w))]
<1>1. /\ At(w, "judge")
      /\ Transition(w, row, "PROPOSAL_READY", NoValue)
      /\ GotoSeeing(w, "conclude", "PROPOSAL_READY")
  BY DEF ProposalReady
<1>2. TaskRow(w) \in Row /\ FoundIn("judge", TaskRow(w).state)
  BY <1>1, InProgress DEF Sees
<1>3. row \in Row
  BY <1>1, <1>2, JudgedPreview DEF Row
<1> HIDE DEF row
<1>4. /\ <<TaskRow(w).state, "PROPOSAL_READY">> \in DocumentedEdges
      /\ FoundIn("conclude", "PROPOSAL_READY")
  BY <1>2 DEF FoundIn, Deciding, DocumentedEdges
<1> QED BY <1>1, <1>3, <1>4, ProperTransition

LEMMA DecisionProper ==
  ASSUME TypeInv, NEW w \in Workers, Sees(w), MarkApproved(w) \/ MarkRejected(w)
  PROVE  Proper(w)
<1>1. ~At(w, "idle")
  BY DEF MarkApproved, MarkRejected
<1>2. TaskRow(w) \in Row /\ FoundIn(session[w].at, TaskRow(w).state)
  BY <1>1, InProgress DEF Sees
<1>3. TaskRow(w).state = "APPROVAL_PENDING"
  BY <1>2 DEF MarkApproved, MarkRejected, FoundIn, Deciding
<1>4. CASE MarkApproved(w)
  <2>1. FoundIn(AfterApproval(TaskRow(w)), "APPROVED")
    BY DEF AfterApproval, FoundIn
  <2> QED BY <1>1, <1>2, <1>3, <1>4, <2>1, ProperTransition
          DEF MarkApproved, DocumentedEdges
<1>5. CASE MarkRejected(w)
  BY <1>1, <1>2, <1>3, <1>5, ProperTransition DEF MarkRejected, DocumentedEdges
<1> QED BY <1>4, <1>5

LEMMA ExecutionProper ==
  ASSUME TypeInv, NEW w \in Workers, Sees(w),
         \/ BeginExecution(w) \/ RecordSuccess(w) \/ RecordTimeout(w)
         \/ RecordReconciled(w) \/ CompleteAction(w)
  PROVE  Proper(w)
<1>1. ~At(w, "idle")
  BY DEF BeginExecution, RecordSuccess, RecordTimeout, RecordReconciled, CompleteAction
<1>2. TaskRow(w) \in Row /\ FoundIn(session[w].at, TaskRow(w).state)
  BY <1>1, InProgress DEF Sees
<1>3. CASE BeginExecution(w)
  <2>1. TaskRow(w).state = "APPROVED" /\ FoundIn("open", "EXECUTING")
    BY <1>2, <1>3 DEF BeginExecution, FoundIn, Deciding
  <2> QED BY <1>1, <1>2, <1>3, <2>1, ProperTransition
          DEF BeginExecution, DocumentedEdges
<1>4. CASE CompleteAction(w)
  <2>1. TaskRow(w).state = "CONFIRMING"
    BY <1>2, <1>4 DEF CompleteAction, FoundIn, Deciding
  <2> QED BY <1>1, <1>2, <1>4, <2>1, ProperTransition
          DEF CompleteAction, DocumentedEdges
<1>5. CASE RecordSuccess(w) \/ RecordReconciled(w)
  <2>1. /\ TaskRow(w).state \in {"EXECUTING", "RECONCILING"}
        /\ FoundIn("confirm", "CONFIRMING")
    BY <1>2, <1>5 DEF RecordSuccess, RecordReconciled, FoundIn, Deciding
  <2>2. <<TaskRow(w).state, "CONFIRMING">> \in DocumentedEdges
    BY <2>1 DEF DocumentedEdges
  <2>3. /\ Store(w, TaskRow(w), "CONFIRMING")
        /\ GotoSeeing(w, "confirm", "CONFIRMING")
    BY <1>5 DEF RecordSuccess, RecordReconciled
  <2> QED BY <1>1, <2>1, <2>2, <2>3, ProperStore
<1>6. CASE RecordTimeout(w)
  <2>1. TaskRow(w).state = "EXECUTING" /\ FoundIn("reconcile", "RECONCILING")
    BY <1>2, <1>6 DEF RecordTimeout, FoundIn, Deciding
  <2>2. <<TaskRow(w).state, "RECONCILING">> \in DocumentedEdges
    BY <2>1 DEF DocumentedEdges
  <2>3. /\ Store(w, TaskRow(w), "RECONCILING")
        /\ GotoSeeing(w, "reconcile", "RECONCILING")
    BY <1>6 DEF RecordTimeout
  <2> QED BY <1>1, <2>1, <2>2, <2>3, ProperStore
<1> QED BY <1>3, <1>4, <1>5, <1>6
LEMMA RowProper ==
  ASSUME TypeInv, NEW w \in Workers, Sees(w),
         \/ \E content \in Contents, verdict \in {"passed", "failed"} :
              Analyze(w, content, verdict)
         \/ RecordReceipt(w)
  PROVE  Proper(w)
<1>1. ~At(w, "idle")
  BY DEF Analyze, RecordReceipt
<1>2. /\ TaskRow(w) \in Row /\ session[w] \in Session
      /\ session[w].seen = TaskRow(w).state
      /\ FoundIn(session[w].at, session[w].seen)
  BY <1>1, InProgress DEF Sees
<1>3. ASSUME NEW row \in Row, NEW place, FoundIn(place, session[w].seen),
             Store(w, row, TaskRow(w).state), Goto(w, place)
      PROVE  Proper(w)
  <2>1. tasks'[session[w].task].state = TaskRow(w).state
    BY <1>1, <1>3, StoredState
  <2> QED BY <1>1, <1>3, <2>1, ProperStay
<1>4. ASSUME NEW content \in Contents, NEW verdict \in {"passed", "failed"},
             Analyze(w, content, verdict)
      PROVE  Proper(w)
  <2> DEFINE row == [TaskRow(w) EXCEPT !.analysis = content, !.verified = verdict]
  <2>1. row \in Row
    BY <1>2 DEF Row
  <2>2. Store(w, row, TaskRow(w).state) /\ Goto(w, "judge")
    BY <1>4 DEF Analyze
  <2>3. FoundIn("judge", session[w].seen)
    BY <1>2, <1>4 DEF Analyze, FoundIn, Deciding
  <2> HIDE DEF row
  <2> QED BY <1>3, <2>1, <2>2, <2>3
<1>5. CASE RecordReceipt(w)
  <2> DEFINE row == [TaskRow(w) EXCEPT !.receipt = session[w].result]
  <2>1. row \in Row
    BY <1>2 DEF Row, Session
  <2>2. Store(w, row, TaskRow(w).state) /\ Goto(w, "complete")
    BY <1>5 DEF RecordReceipt
  <2>3. FoundIn("complete", session[w].seen)
    BY <1>2, <1>5 DEF RecordReceipt, FoundIn, Deciding
  <2> HIDE DEF row
  <2> QED BY <1>3, <2>1, <2>2, <2>3
<1> QED BY <1>4, <1>5

\* Steps that leave the row alone and end the request, or go on.
LEMMA RestProper ==
  ASSUME TypeInv, NEW w \in Workers, Sees(w),
         \/ \E flagged \in BOOLEAN : RetrieveDocuments(w, flagged)
         \/ StoreApproval(w) \/ StoreRejection(w) \/ DecisionConflict(w)
         \/ PauseAfterApproval(w) \/ LogResume(w) \/ FindTicket(w)
         \/ MissTicket(w) \/ CountTickets(w) \/ InsertTicket(w)
         \/ FindAfterTimeout(w) \/ ConfirmTicket(w) \/ ExecutionFails(w)
         \/ RequestDies(w)
  PROVE  Proper(w)
<1>1. ~At(w, "idle") /\ tasks' = tasks
  BY DEF RetrieveDocuments, StoreApproval, StoreRejection, StoreDecision,
         DecisionConflict, PauseAfterApproval, LogResume, FindTicket, MissTicket,
         CountTickets, InsertTicket, FindAfterTimeout, ConfirmTicket,
         ExecutionFails, ExecutionRefused, RequestDies
<1>2. FoundIn(session[w].at, session[w].seen)
  BY <1>1 DEF Sees
<1>3. ASSUME NEW flagged \in BOOLEAN, RetrieveDocuments(w, flagged)
      PROVE  Proper(w)
  <2>1. FoundIn("verify", session[w].seen) /\ Goto(w, "verify")
    BY <1>2, <1>3 DEF RetrieveDocuments, FoundIn, Deciding
  <2> QED BY <1>1, <2>1, ProperStay
<1>4. CASE StoreApproval(w) \/ StoreRejection(w)
  <2>1. PICK place \in {"mark_approved", "mark_rejected"} :
          Goto(w, place) /\ session[w].at \in {"approve", "reject"}
    BY <1>4 DEF StoreApproval, StoreRejection, StoreDecision
  <2>2. FoundIn(place, session[w].seen)
    BY <1>2, <2>1 DEF FoundIn, Deciding
  <2> QED BY <1>1, <2>1, <2>2, ProperStay
<1>5. CASE \/ DecisionConflict(w) \/ PauseAfterApproval(w) \/ ExecutionFails(w)
           \/ RequestDies(w)
  <2>1. Finish(w)
    BY <1>5 DEF DecisionConflict, PauseAfterApproval, ExecutionFails, RequestDies
  <2> QED BY <1>1, <2>1, ProperStay
<1>6. CASE LogResume(w)
  <2>1. Goto(w, "execute")
    BY <1>6 DEF LogResume
  <2>2. FoundIn("execute", session[w].seen)
    BY <1>2, <1>6 DEF LogResume, FoundIn, Deciding
  <2> QED BY <1>1, <2>1, <2>2, ProperStay
<1>7. CASE \/ FindTicket(w) \/ MissTicket(w) \/ CountTickets(w)
           \/ InsertTicket(w)
  <2>1. session[w].seen = "EXECUTING"
    BY <1>2, <1>7
    DEF FindTicket, MissTicket, CountTickets, InsertTicket, FoundIn, Deciding
  <2>2. PICK place, result :
          /\ Goto(w, place) \/ GotoWith(w, place, result)
          /\ place \in {"succeed", "count", "insert", "timed_out"}
    BY <1>7 DEF FindTicket, MissTicket, CountTickets, InsertTicket, AfterInsert
  <2>3. FoundIn(place, session[w].seen)
    BY <2>1, <2>2 DEF FoundIn
  <2> QED BY <1>1, <2>2, <2>3, ProperStay
<1>8. CASE FindAfterTimeout(w)
  <2>1. FoundIn("reconciled", session[w].seen)
    BY <1>2, <1>8 DEF FindAfterTimeout, FoundIn, Deciding
  <2>2. \E result : GotoWith(w, "reconciled", result)
    BY <1>8 DEF FindAfterTimeout
  <2> QED BY <1>1, <2>1, <2>2, ProperStay
<1>9. CASE ConfirmTicket(w)
  <2>1. Goto(w, "receipt")
    BY <1>9 DEF ConfirmTicket
  <2>2. FoundIn("receipt", session[w].seen)
    BY <1>2, <1>9 DEF ConfirmTicket, FoundIn, Deciding
  <2> QED BY <1>1, <2>1, <2>2, ProperStay
<1> QED BY <1>3, <1>4, <1>5, <1>6, <1>7, <1>8, <1>9

LEMMA OpenProper ==
  ASSUME TypeInv, NEW w \in Workers, Sees(w), OpenAttempt(w)
  PROVE  Proper(w)
<1>1. ~At(w, "idle") /\ tasks' = tasks
  BY DEF OpenAttempt
<1>2. session[w].seen = TaskRow(w).state /\ session[w].seen = "EXECUTING"
  BY <1>1 DEF Sees, OpenAttempt, FoundIn, Deciding
<1>3. /\ session'[w].at = "find"
      /\ session'[w].task = session[w].task
      /\ session'[w].seen = session[w].seen
  BY DEF OpenAttempt, TypeInv, SessionsOK, Session
<1>4. GoesOn(w)
  BY <1>1, <1>2, <1>3 DEF GoesOn, FoundIn
<1> QED BY <1>1, <1>4 DEF Proper

LEMMA StepProper ==
  ASSUME TypeInv, NEW w \in Workers, Sees(w), Step(w), ~At(w, "idle")
  PROVE  Proper(w)
<1>1. ~Arrive(w)
  BY DEF Arrive, CreateTask, Approve, Reject, Resume, ReadForDecision
<1>2. CASE Proceed(w)
  BY <1>2, CreationProper, ProposalProper, DecisionProper, ExecutionProper,
     RowProper, RestProper, OpenProper
  DEF Proceed
<1> QED BY <1>1, <1>2, CreationProper, RestProper DEF Step
LEMMA IdleWaits ==
  ASSUME NEW w \in Workers, At(w, "idle")
  PROVE  ~Proceed(w) /\ ~CreationFails(w) /\ ~RequestDies(w)
  BY DEF Proceed, CreateContract, GatherDocuments, StartAnalysis, Advance,
         RetrieveDocuments, Analyze, RejectAnalysis, ProposalReady,
         ConcludeCreation, StoreApproval, StoreRejection, StoreDecision,
         DecisionConflict, MarkApproved, MarkRejected, PauseAfterApproval,
         LogResume, BeginExecution, OpenAttempt, FindTicket, MissTicket,
         CountTickets, InsertTicket, RecordSuccess, RecordTimeout,
         FindAfterTimeout, RecordReconciled, ConfirmTicket, RecordReceipt,
         CompleteAction, ExecutionFails, ExecutionRefused, CreationFails,
         Creating, RequestDies
\* A request that arrives sees the state that the row has.
LEMMA ArriveProper ==
  ASSUME TypeInv, NEW w \in Workers, Arrive(w)
  PROVE  /\ At(w, "idle")
         /\ session'[w].seen = tasks'[session'[w].task].state
         /\ FoundIn(session'[w].at, session'[w].seen)
<1>0. session \in [Workers -> Session] /\ tasks \in [Tasks -> Row \cup {NoValue}]
  BY DEF TypeInv, TypeOK
<1>1. ASSUME NEW t \in Tasks, NEW u \in Users, NEW p \in Projects,
             NEW action \in RequestedAction, NEW research \in BOOLEAN,
             NEW mode \in Modes, CreateTask(w, t, u, p, action, research, mode)
      PROVE  /\ At(w, "idle")
             /\ session'[w].seen = tasks'[session'[w].task].state
             /\ FoundIn(session'[w].at, session'[w].seen)
  <2> DEFINE row == NewRow(u, p, action, ChooseLane(research, action), mode)
  <2>1. row.state = "RECEIVED"
    BY DEF NewRow
  <2>2. At(w, "idle") /\ tasks' = [tasks EXCEPT ![t] = row]
    BY <1>1 DEF CreateTask
  <2> HIDE DEF row
  <2>3. tasks'[t].state = "RECEIVED"
    BY <1>0, <2>1, <2>2
  <2>4. /\ session'[w].task = t
        /\ session'[w].seen = "RECEIVED"
        /\ session'[w].at = "contract"
    BY <1>0, <1>1 DEF CreateTask, Begin
  <2> QED BY <2>2, <2>3, <2>4 DEF FoundIn
<1>2. ASSUME NEW t \in Tasks, NEW actor \in Users, NEW state, NEW place,
             FoundIn(place, state), ReadForDecision(w, t, actor, state, place)
      PROVE  /\ At(w, "idle")
             /\ session'[w].seen = tasks'[session'[w].task].state
             /\ FoundIn(session'[w].at, session'[w].seen)
  <2>1. /\ session'[w].task = t /\ session'[w].seen = state
        /\ session'[w].at = place
    BY <1>0, <1>2 DEF ReadForDecision, Begin
  <2>2. tasks' = tasks /\ tasks[t].state = state
    BY <1>2 DEF ReadForDecision, MayDecide
  <2> QED BY <1>2, <2>1, <2>2 DEF ReadForDecision
<1>3. /\ FoundIn("approve", "APPROVAL_PENDING") /\ FoundIn("reject", "APPROVAL_PENDING")
      /\ FoundIn("resume", "APPROVED")
  BY DEF FoundIn, Deciding
<1> QED BY <1>1, <1>2, <1>3 DEF Arrive, Approve, Reject, Resume

\* Only the state of the task that w works on changes.
LEMMA OwnStateOnly ==
  ASSUME TypeInv, NEW w \in Workers, Step(w), NEW t \in Tasks, Exists(t),
         tasks'[t].state # tasks[t].state
  PROVE  ~At(w, "idle") /\ session[w].task = t
<1>1. RowsStep(w)
  BY NextFrame DEF Frame
<1>2. session[w].task = t /\ Stores(session[w].at, tasks[t], tasks'[t].state)
  BY <1>1 DEF RowsStep
<1> QED BY <1>2 DEF Stores, Creating

LEMMA SeenKept ==
  ASSUME TypeInv, OneRequestPerTask, SeenInv, NEW w \in Workers, Step(w)
  PROVE  SeenInv'
<1>1. SessionStep(w)
  BY NextFrame DEF Frame
<1>2. ASSUME NEW v \in Workers, session'[v].at # "idle"
      PROVE  /\ session'[v].seen = tasks'[session'[v].task].state
             /\ FoundIn(session'[v].at, session'[v].seen)
  <2>1. CASE v = w /\ At(w, "idle")
    <3>1. Arrive(w)
      BY <1>2, <2>1, StepFrom
    <3> QED BY <2>1, <3>1, ArriveProper
  <2>2. CASE v = w /\ ~At(w, "idle")
    <3>1. session'[w] # Idle
      BY <1>2, <2>2 DEF Idle
    <3>2. GoesOn(w)
      BY <2>2, StepProper DEF Proper, SeenInv
    <3> QED BY <2>2, <3>1, <3>2 DEF GoesOn
  <2>3. CASE v # w
    <3>1. session'[v] = session[v]
      BY <1>1, <2>3 DEF SessionStep, OnlySession
    <3>2. /\ ~At(v, "idle")
          /\ session[v].seen = TaskRow(v).state
          /\ FoundIn(session[v].at, session[v].seen)
      BY <1>2, <3>1 DEF SeenInv, Sees
    <3>3. session[v].task \in Tasks /\ TaskRow(v) # NoValue
      BY <3>2, InProgress, WorkflowAssumption
    <3>4. session[w].task # session[v].task
      BY <2>3, <3>3, WorkflowAssumption DEF OneRequestPerTask
    <3>5. tasks'[session[v].task].state = TaskRow(v).state
      BY <3>3, <3>4, OwnStateOnly
    <3> QED BY <3>1, <3>2, <3>5
  <2> QED BY <2>1, <2>2, <2>3
<1> QED BY <1>2 DEF SeenInv, Sees

LEMMA InitSeen == Init => SeenInv
  BY DEF Init, Idle, SeenInv, Sees

LEMMA NextSeen ==
  TypeInv /\ OneRequestPerTask /\ SeenInv /\ [Next]_vars => SeenInv'
<1> SUFFICES ASSUME TypeInv, OneRequestPerTask, SeenInv, [Next]_vars
             PROVE  SeenInv'
  OBVIOUS
<1>1. CASE UNCHANGED vars
  BY <1>1 DEF vars, SeenInv, Sees, FoundIn, Deciding
<1> QED BY <1>1, SeenKept DEF Next, Step

LEMMA NextFollowsDiagram ==
  TypeInv /\ SeenInv /\ [Next]_vars =>
    [\A t \in Tasks : Exists(t) /\ tasks'[t].state # tasks[t].state =>
       <<tasks[t].state, tasks'[t].state>> \in DocumentedEdges]_vars
<1> SUFFICES ASSUME TypeInv, SeenInv, Next, NEW t \in Tasks, Exists(t),
                    tasks'[t].state # tasks[t].state
             PROVE  <<tasks[t].state, tasks'[t].state>> \in DocumentedEdges
  OBVIOUS
<1>1. PICK w \in Workers : Step(w)
  BY DEF Next, Step
<1>2. ~At(w, "idle") /\ session[w].task = t
  BY <1>1, OwnStateOnly
<1> QED BY <1>1, <1>2, StepProper DEF Proper, SeenInv

LEMMA SeenInvariant == Spec /\ []OneRequestPerTask => []SeenInv
  BY InitSeen, NextSeen, TypeInvariant, PTL DEF Spec

\* While no two requests in progress are for one task, a task changes its
\* state only along an edge of the state machine of README.md, whatever dies
\* or is refused between two commits.
THEOREM LoneRequestsFollowTheDiagram ==
  Spec /\ []OneRequestPerTask => StatesFollowDiagram
  BY NextFollowsDiagram, SeenInvariant, TypeInvariant, PTL
  DEF Spec, StatesFollowDiagram

\* Under the same condition COMPLETED is final: only overlapping requests for
\* one task can take it back.
THEOREM LoneRequestsKeepCompleted ==
  Spec /\ []OneRequestPerTask => CompletedIsFinal
<1>1. [\A t \in Tasks : Exists(t) /\ tasks'[t].state # tasks[t].state =>
         <<tasks[t].state, tasks'[t].state>> \in DocumentedEdges]_vars
      => [\A t \in Tasks : Exists(t) /\ tasks[t].state = "COMPLETED" =>
            tasks'[t].state = "COMPLETED"]_vars
  BY DEF DocumentedEdges, CreationState, vars
<1> QED BY <1>1, LoneRequestsFollowTheDiagram, PTL
        DEF StatesFollowDiagram, CompletedIsFinal

-----------------------------------------------------------------------------
(* What an overlap of requests can make of the origins that events name.   *)

\* A request that writes to its task: it creates it, or its decision is stored
\* and it goes on.
Busy(w) == session[w].at \notin {"idle", "approve", "reject", "resume"}

\* w works on its task alone, and has seen its state.
Lone(w) ==
  /\ Sees(w)
  /\ \A v \in Workers : Busy(v) /\ session[v].task = session[w].task => v = w

\* Before a decision is stored.
Undecided == Creating \cup {"mark_approved", "mark_rejected"}

OriginInv ==
  /\ \A w \in Workers : session[w].at \in {"approve", "reject"} =>
       session[w].seen = "APPROVAL_PENDING"
  /\ \A t \in Tasks : Resumed(t) => Granted(t)
  /\ \A w \in Workers : session[w].at \in Undecided => ~Resumed(session[w].task)
  /\ \A w \in Workers : Busy(w) /\ ~Resumed(session[w].task) => Lone(w)

LEMMA OriginsAreKnown == OriginInv => StaleOriginsNeedResume
  BY DEF OriginInv, StaleOriginsNeedResume, Transitioning, Undecided, Creating,
         Busy, Lone, Sees

\* Only resume_task writes its event.
LEMMA ResumedStep ==
  ASSUME TypeInv, NEW w \in Workers, Step(w), NEW t \in Tasks
  PROVE  /\ Resumed(t) => Resumed(t)'
         /\ Resumed(t)' => Resumed(t) \/ (At(w, "resume") /\ session[w].task = t)
         /\ At(w, "resume") /\ session[w].task = t /\ session'[w].at # "idle"
              => Resumed(t)'
<1>1. audit \subseteq audit'
  BY NextFrame DEF Frame
<1>2. \/ LogResume(w)
      \/ \A e \in audit' \ audit : e.type # "WORKFLOW_RESUMED"
  <2>1. CASE Arrive(w)
    BY <2>1 DEF Arrive, CreateTask, Approve, Reject, Resume, ReadForDecision, Record
  <2>2. CASE \/ CreateContract(w) \/ GatherDocuments(w) \/ StartAnalysis(w)
             \/ RejectAnalysis(w) \/ ProposalReady(w) \/ ConcludeCreation(w)
             \/ MarkApproved(w) \/ MarkRejected(w) \/ BeginExecution(w)
             \/ CompleteAction(w)
    <3>1. \E row, state, actor : Transition(w, row, state, actor)
      BY <2>2 DEF CreateContract, GatherDocuments, StartAnalysis, Advance,
                  RejectAnalysis, ProposalReady, ConcludeCreation, MarkApproved,
                  MarkRejected, BeginExecution, CompleteAction
    <3> QED BY <3>1 DEF Transition
  <2>3. CASE \E flagged \in BOOLEAN : RetrieveDocuments(w, flagged)
    BY <2>3 DEF RetrieveDocuments, Record
  <2>4. CASE \/ StoreApproval(w) \/ StoreRejection(w) \/ PauseAfterApproval(w)
             \/ OpenAttempt(w) \/ RecordSuccess(w) \/ RecordTimeout(w)
             \/ RecordReconciled(w) \/ RecordReceipt(w) \/ CreationFails(w)
    <3>1. PICK type, actor : Log(w, type, actor) /\ type # "WORKFLOW_RESUMED"
      BY <2>4 DEF StoreApproval, StoreRejection, StoreDecision,
                  PauseAfterApproval, OpenAttempt, RecordSuccess, RecordTimeout,
                  RecordReconciled, RecordReceipt, CreationFails
    <3> QED BY <3>1 DEF Log, Record
  <2>5. CASE \/ \E content \in Contents, verdict \in {"passed", "failed"} :
                  Analyze(w, content, verdict)
             \/ DecisionConflict(w) \/ FindTicket(w) \/ MissTicket(w)
             \/ CountTickets(w) \/ InsertTicket(w) \/ FindAfterTimeout(w)
             \/ ConfirmTicket(w) \/ ExecutionFails(w) \/ RequestDies(w)
    <3>1. audit' = audit
      BY <2>5 DEF Analyze, DecisionConflict, FindTicket, MissTicket, CountTickets,
                  InsertTicket, FindAfterTimeout, ConfirmTicket, ExecutionFails,
                  RequestDies
    <3> QED BY <3>1
  <2> QED BY <2>1, <2>2, <2>3, <2>4, <2>5 DEF Step, Proceed
<1>3. Resumed(t)' => Resumed(t) \/ (At(w, "resume") /\ session[w].task = t)
  <2>1. LogResume(w) => /\ At(w, "resume")
                        /\ \A e \in audit' \ audit : e.task = session[w].task
    BY DEF LogResume, Log, Record
  <2> QED BY <1>2, <2>1 DEF Resumed
<1>4. ASSUME At(w, "resume"), session[w].task = t, session'[w].at # "idle"
      PROVE  Resumed(t)'
  <2>1. Finish(w) => session'[w].at = "idle"
    BY DEF Finish, Idle, TypeInv, SessionsOK
  <2>2. LogResume(w)
    BY <1>4, <2>1
    DEF Step, Arrive, CreateTask, Approve, Reject, Resume, ReadForDecision,
        Proceed, CreateContract, GatherDocuments, StartAnalysis, Advance,
        RetrieveDocuments, Analyze, RejectAnalysis, ProposalReady,
        ConcludeCreation, StoreApproval, StoreRejection, StoreDecision,
        DecisionConflict, MarkApproved, MarkRejected, PauseAfterApproval,
        BeginExecution, OpenAttempt, FindTicket, MissTicket, CountTickets,
        InsertTicket, RecordSuccess, RecordTimeout, FindAfterTimeout,
        RecordReconciled, ConfirmTicket, RecordReceipt, CompleteAction,
        ExecutionFails, CreationFails, RequestDies
  <2>3. Record(t, "WORKFLOW_RESUMED", session[w].actor) \in audit'
    BY <1>4, <2>2 DEF LogResume, Log
  <2> QED BY <2>3 DEF Resumed, Record
<1> QED BY <1>1, <1>3, <1>4 DEF Resumed

\* How a request becomes busy: by creating a task that nobody works on, by
\* storing the decision, or by recording that it resumes.
LEMMA BusyStep ==
  ASSUME IInv, NEW w \in Workers, Step(w), Busy(w)', ~Busy(w)
  PROVE  \/ /\ At(w, "idle") /\ Arrive(w)
            /\ session'[w].at = "contract"
            /\ session'[w].task \in Tasks /\ ~Exists(session'[w].task)
         \/ /\ session[w].at \in {"approve", "reject"}
            /\ session'[w].at \in {"mark_approved", "mark_rejected"}
            /\ session'[w].task = session[w].task
            /\ session'[w].seen = session[w].seen
            /\ ~DecisionTaken(session[w].task)
            /\ tasks' = tasks
         \/ /\ At(w, "resume") /\ session'[w].at # "idle"
            /\ session'[w].task = session[w].task
<1>1. SessionStep(w) /\ session'[w].at # "idle"
  BY NextFrame DEF Frame, IInv, Busy
<1>2. session \in [Workers -> Session]
  BY DEF IInv, TypeInv, SessionsOK
<1>3. CASE At(w, "idle")
  <2>1. Arrive(w)
    BY <1>1, <1>3, StepFrom DEF IInv
  <2>2. PICK t \in Tasks, u \in Users, p \in Projects, action \in RequestedAction,
             research \in BOOLEAN, mode \in Modes :
          CreateTask(w, t, u, p, action, research, mode)
    BY <1>2, <2>1
    DEF Arrive, Approve, Reject, Resume, ReadForDecision, Begin, Busy
  <2> QED BY <1>2, <1>3, <2>1, <2>2 DEF CreateTask, Begin
<1>4. CASE session[w].at \in {"approve", "reject"}
  <2>1. StoreApproval(w) \/ StoreRejection(w)
    BY <1>1, <1>4, StepFrom DEF IInv
  <2>2. PICK place \in {"mark_approved", "mark_rejected"} :
          /\ Goto(w, place) /\ tasks' = tasks
          /\ ~DecisionTaken(session[w].task)
    BY <2>1 DEF StoreApproval, StoreRejection, StoreDecision
  <2> QED BY <1>2, <1>4, <2>2 DEF Goto, Session
<1>5. CASE At(w, "resume")
  BY <1>1, <1>5 DEF SessionStep, Idle
<1> QED BY <1>3, <1>4, <1>5 DEF Busy

\* Whoever is busy with a task that is not decided creates it.
LEMMA BusyDecided ==
  ASSUME IInv, NEW v \in Workers, Busy(v), session[v].at \notin Creating
  PROVE  DecisionTaken(session[v].task)
<1>1. session[v].at \in Executing \cup {"mark_approved", "mark_rejected"}
  BY DEF Busy, Executing, Creating, IInv, TypeInv, SessionsOK, Session, Place, Deciding
<1> QED BY <1>1 DEF IInv, DecisionInv, ExecutorsGranted, DeniersDenied, Granted,
                    Denied, DecisionTaken

LEMMA ResumedKept ==
  ASSUME IInv, OriginInv, NEW w \in Workers, Step(w), NEW t \in Tasks, Resumed(t)'
  PROVE  Granted(t) /\ Granted(t)'
<1>1. Resumed(t) \/ (At(w, "resume") /\ session[w].task = t)
  BY ResumedStep DEF IInv
<1>2. Granted(t)
  BY <1>1 DEF OriginInv, IInv, DecisionInv, ExecutorsGranted, Executing
<1>3. approvals \subseteq approvals'
  BY NextFrame, ApprovalsStay DEF IInv
<1> QED BY <1>2, <1>3 DEF Granted

\* A busy request of another worker keeps what it knows.
LEMMA OthersStayLone ==
  ASSUME IInv, OriginInv, NEW w \in Workers, Step(w), NEW v \in Workers, v # w,
         Busy(v)', ~Resumed(session[v].task)'
  PROVE  Lone(v)'
<1>0. SessionStep(w)
  BY NextFrame DEF IInv, Frame
<1>1. session'[v] = session[v] /\ Busy(v)
  BY <1>0 DEF SessionStep, OnlySession, Busy
<1>2. session[v].task \in Tasks /\ Exists(session[v].task)
  BY <1>1, InProgress DEF Busy, IInv
<1>3. ~Resumed(session[v].task)
  BY <1>1, <1>2, ResumedStep DEF IInv, Resumed
<1>4. Lone(v)
  BY <1>1, <1>3 DEF OriginInv
<1>5. tasks'[session[v].task].state = TaskRow(v).state
  <2> SUFFICES ASSUME tasks'[session[v].task].state # TaskRow(v).state PROVE FALSE
    OBVIOUS
  <2>1. /\ session[w].task = session[v].task
        /\ Stores(session[w].at, TaskRow(v), tasks'[session[v].task].state)
    BY <1>2, NextFrame DEF IInv, Frame, RowsStep
  <2>2. Busy(w)
    BY <2>1 DEF Stores, Busy, Creating
  <2> QED BY <1>4, <2>1, <2>2 DEF Lone
<1>6. Sees(v)'
  BY <1>1, <1>4, <1>5 DEF Lone, Sees, Busy
<1>7. ASSUME NEW u \in Workers, Busy(u)', session'[u].task = session'[v].task
      PROVE  u = v
  <2>1. CASE u # w
    BY <1>0, <1>1, <1>4, <1>7, <2>1 DEF SessionStep, OnlySession, Busy, Lone
  <2>2. CASE u = w /\ Busy(w)
    <3>1. session'[w].task = session[w].task
      BY <1>0, <1>7, <2>2 DEF SessionStep, Idle, Busy
    <3> QED BY <1>1, <1>4, <1>7, <2>2, <3>1 DEF Lone
  <2>3. CASE u = w /\ ~Busy(w)
    <3>1. CASE At(w, "idle") /\ ~Exists(session'[w].task)
      BY <1>1, <1>2, <1>7, <2>3, <3>1
    <3>2. CASE session[w].task = session[v].task /\ ~DecisionTaken(session[w].task)
      <4>1. session[v].at \in Creating
        BY <1>1, <3>2, BusyDecided
      <4> QED BY <3>2, <4>1 DEF IInv, DecisionInv, CreatorsAlone
    <3>3. CASE /\ At(w, "resume") /\ session'[w].at # "idle"
               /\ session[w].task = session[v].task
      BY <1>1, <1>2, <3>3, ResumedStep DEF IInv, Resumed
    <3> QED BY <1>1, <1>7, <2>3, <3>1, <3>2, <3>3, BusyStep
  <2> QED BY <2>1, <2>2, <2>3
<1> QED BY <1>6, <1>7 DEF Lone

\* A request that is or becomes busy knows its task, unless it was resumed.
LEMMA OwnStaysLone ==
  ASSUME IInv, OriginInv, NEW w \in Workers, Step(w), Busy(w)',
         ~Resumed(session[w].task)'
  PROVE  Lone(w)'
<1>0. SessionStep(w)
  BY NextFrame DEF IInv, Frame
<1>1. CASE Busy(w)
  <2>1. /\ session'[w].task = session[w].task /\ session'[w].at # "idle"
        /\ session[w].task \in Tasks
    BY <1>0, <1>1, InProgress DEF SessionStep, Idle, Busy, IInv
  <2>2. Lone(w)
    BY <1>1, <2>1, ResumedStep DEF OriginInv, IInv, Resumed
  <2>3. GoesOn(w)
    BY <1>1, <2>2, StepProper DEF Lone, Proper, Busy, IInv
  <2>4. Sees(w)'
    BY <2>1, <2>3 DEF GoesOn, Sees, Idle
  <2>5. \A u \in Workers : Busy(u)' /\ session'[u].task = session'[w].task => u = w
    BY <1>0, <2>1, <2>2 DEF SessionStep, OnlySession, Lone, Busy
  <2> QED BY <2>4, <2>5 DEF Lone
<1>2. CASE At(w, "idle") /\ Arrive(w) /\ ~Exists(session'[w].task)
  <2>1. Sees(w)'
    BY <1>2, ArriveProper DEF Sees, IInv
  <2>2. ASSUME NEW u \in Workers, Busy(u)', session'[u].task = session'[w].task,
               u # w
        PROVE  FALSE
    <3>1. session'[u] = session[u] /\ ~At(u, "idle")
      BY <1>0, <2>2 DEF SessionStep, OnlySession, Busy
    <3>2. Exists(session[u].task)
      BY <3>1, InProgress DEF IInv
    <3> QED BY <1>2, <2>2, <3>1, <3>2
  <2> QED BY <2>1, <2>2 DEF Lone
<1>3. CASE /\ session[w].at \in {"approve", "reject"}
           /\ session'[w].at \in {"mark_approved", "mark_rejected"}
           /\ session'[w].task = session[w].task
           /\ session'[w].seen = session[w].seen
           /\ ~DecisionTaken(session[w].task)
           /\ tasks' = tasks
  <2>1. TaskRow(w).state = "APPROVAL_PENDING" /\ session[w].seen = "APPROVAL_PENDING"
    BY <1>3 DEF OriginInv, IInv, DecisionInv, PendingUntilDecided
  <2>2. Sees(w)'
    BY <1>3, <2>1 DEF Sees, FoundIn, Deciding
  <2>3. ASSUME NEW u \in Workers, Busy(u)', session'[u].task = session'[w].task,
               u # w
        PROVE  FALSE
    <3>1. session[u].task = session[w].task /\ Busy(u)
      BY <1>0, <1>3, <2>3 DEF SessionStep, OnlySession, Busy
    <3>2. session[u].at \in Creating
      BY <1>3, <3>1, BusyDecided
    <3> QED BY <1>3, <3>1, <3>2 DEF IInv, DecisionInv, CreatorsAlone, Creating
  <2> QED BY <2>2, <2>3 DEF Lone
<1>4. CASE At(w, "resume") /\ session'[w].at # "idle" /\ session'[w].task = session[w].task
  <2>1. session[w].task \in Tasks
    BY <1>4, InProgress DEF IInv
  <2> QED BY <1>4, <2>1, ResumedStep DEF IInv, Resumed
<1> QED BY <1>1, <1>2, <1>3, <1>4, BusyStep

LEMMA UndecidedKept ==
  ASSUME IInv, OriginInv, ExecutorsApproved, NEW w \in Workers, Step(w),
         NEW v \in Workers, session'[v].at \in Undecided
  PROVE  ~Resumed(session[v].task)'
<1>0. SessionStep(w)
  BY NextFrame DEF IInv, Frame
<1>1. session'[v].task \in Tasks /\ Busy(v)'
  <2>1. Busy(v)'
    BY DEF Busy, Undecided, Creating
  <2>2. TypeInv'
    BY NextType DEF IInv, Next, Step
  <2> QED BY <2>1, <2>2, WorkflowAssumption
          DEF Busy, TypeInv, SessionsOK, Sound
<1> SUFFICES ASSUME Resumed(session[v].task)' PROVE FALSE
  OBVIOUS
<1>2. Granted(session'[v].task) /\ DecisionTaken(session'[v].task)
  BY <1>1, ResumedKept DEF Resumed, Granted, DecisionTaken
<1>3. CASE session[v].at \in Undecided /\ session[v].task = session'[v].task
  <2>1. ~Resumed(session[v].task) /\ Lone(v)
    BY <1>3 DEF OriginInv, Undecided, Creating, Busy
  <2>2. TaskRow(v).state \in CreationState \cup {"APPROVAL_PENDING"}
    BY <1>3, <2>1 DEF Lone, Sees, FoundIn, Deciding, Undecided, Creating, CreationState
  <2>3. At(w, "resume") /\ session[w].task = session[v].task
    BY <1>1, <1>3, <2>1, ResumedStep DEF IInv, Resumed
  <2>4. TaskRow(w).state \in ApprovedStates
    BY <2>3 DEF ExecutorsApproved, Executing
  <2> QED BY <2>2, <2>3, <2>4 DEF CreationState, ApprovedStates
<1>4. CASE ~(session[v].at \in Undecided /\ session[v].task = session'[v].task)
  <2>1. v = w
    BY <1>0, <1>4 DEF SessionStep, OnlySession
  <2>2. ~Busy(w)
    <3> SUFFICES ASSUME Busy(w) PROVE FALSE
      OBVIOUS
    <3>1. /\ Moves(session[w].at, session'[w].at)
          /\ session'[w].task = session[w].task
      BY <1>0, <2>1 DEF SessionStep, Idle, Busy, Undecided, Creating
    <3> QED BY <1>4, <2>1, <3>1 DEF Moves, Busy, Undecided, Creating, Executing
  <2>3. Granted(session'[w].task) => Exists(session'[w].task)
    BY DEF Granted, IInv, DecisionInv, DecisionsAuthorized
  <2>4. ~At(w, "resume")
    BY <1>0, <2>1 DEF SessionStep, Moves, Idle, Undecided, Creating
  <2> QED BY <1>1, <1>2, <2>1, <2>2, <2>3, <2>4, BusyStep
<1> QED BY <1>3, <1>4

LEMMA OriginKept ==
  ASSUME IInv, OriginInv, ExecutorsApproved, NEW w \in Workers, Step(w)
  PROVE  OriginInv'
<1>0. SessionStep(w)
  BY NextFrame DEF IInv, Frame
<1>1. ASSUME NEW v \in Workers, session'[v].at \in {"approve", "reject"}
      PROVE  session'[v].seen = "APPROVAL_PENDING"
  <2>1. CASE v # w
    BY <1>0, <1>1, <2>1 DEF SessionStep, OnlySession, OriginInv
  <2>2. CASE v = w
    <3>1. At(w, "idle")
      BY <1>0, <1>1, <2>2 DEF SessionStep, Moves, Idle
    <3>2. Arrive(w)
      BY <1>1, <2>2, <3>1, StepFrom DEF IInv
    <3> QED BY <1>1, <2>2, <3>2, ArriveProper DEF IInv, FoundIn, Deciding
  <2> QED BY <2>1, <2>2
<1>2. \A t \in Tasks : Resumed(t)' => Granted(t)'
  BY ResumedKept
<1>3. \A v \in Workers : session'[v].at \in Undecided => ~Resumed(session[v].task)'
  BY UndecidedKept
<1>4. \A v \in Workers : Busy(v)' /\ ~Resumed(session[v].task)' => Lone(v)'
  BY OthersStayLone, OwnStaysLone
<1> QED BY <1>1, <1>2, <1>3, <1>4 DEF OriginInv, Undecided, Creating

\* However requests overlap and whatever dies between two commits: a
\* STATE_TRANSITION event that is about to be written names the state that the
\* row leaves, unless the task was resumed and an execution writes it.
THEOREM OriginsAreStaleOnlyAfterResume == Spec => []StaleOriginsNeedResume
<1>1. Init => OriginInv
  BY DEF Init, Idle, OriginInv, Resumed, Undecided, Creating, Busy
<1>2. IInv /\ ExecutorsApproved /\ OriginInv /\ [Next]_vars => OriginInv'
  <2> SUFFICES ASSUME IInv, ExecutorsApproved, OriginInv, [Next]_vars
               PROVE  OriginInv'
    OBVIOUS
  <2>1. CASE UNCHANGED vars
    BY <2>1 DEF vars, OriginInv, Resumed, Granted, Undecided, Creating, Busy, Lone,
                Sees, FoundIn, Deciding
  <2> QED BY <2>1, OriginKept DEF Next, Step
<1> QED BY <1>1, <1>2, OriginsAreKnown, DecisionInvariant, ExecutorsInvariant, PTL
        DEF Spec

-----------------------------------------------------------------------------
(* Without crashes no task is left behind.                                 *)

\* No two tasks propose the same ticket, and an insert is not refused because
\* of the number that another task took.
NoRivals ==
  /\ \A t, u \in Tasks :
       /\ Exists(t) /\ Exists(u)
       /\ tasks[t].preview # NoValue
       /\ tasks[t].preview = tasks[u].preview
       => t = u
  /\ \A w \in Workers : At(w, "insert") =>
       \A x \in tickets :
         x.num = session[w].result.num => x.key = TaskRow(w).preview

\* The request of w is bound to bring its task to rest: it stands where no
\* statement is refused, or where it is the first to insert its ticket.
Carries(w) ==
  \/ session[w].at \in Creating \cup Written
  \/ session[w].at \in {"resume", "execute", "open", "find"}
  \/ /\ session[w].at \in {"count", "insert"}
     /\ FindByKey(TaskRow(w).preview) = {}

\* A task that may not rest has a request that carries it on.
CarriedInv ==
  \A t \in Tasks : Exists(t) /\ ~Settled(t) =>
    \E w \in Workers : session[w].task = t /\ Carries(w)

\* The action by which a request ends.
LEMMA ProceedToIdle ==
  ASSUME TypeInv, NEW w \in Workers, Proceed(w), session'[w].at = "idle"
  PROVE  \/ RejectAnalysis(w) \/ ConcludeCreation(w) \/ DecisionConflict(w)
         \/ MarkRejected(w) \/ PauseAfterApproval(w) \/ CompleteAction(w)
         \/ ExecutionFails(w)
<1>1. \A place, state : \/ Goto(w, place)
                        \/ GotoSeeing(w, place, state)
                        \/ GotoWith(w, place, state)
                        => place = "idle"
  BY NewSession
<1>2. ~OpenAttempt(w)
  BY DEF OpenAttempt, TypeInv, SessionsOK, Session
<1> QED
  BY <1>1, <1>2
  DEF Proceed, CreateContract, GatherDocuments, StartAnalysis, Advance,
      RetrieveDocuments, Analyze, ProposalReady, StoreApproval, StoreRejection,
      StoreDecision, MarkApproved, AfterApproval, LogResume, BeginExecution,
      FindTicket, MissTicket, CountTickets, InsertTicket, AfterInsert,
      RecordSuccess, RecordTimeout, FindAfterTimeout, RecordReconciled,
      ConfirmTicket, RecordReceipt

LEMMA StepToIdle ==
  ASSUME TypeInv, NEW w \in Workers, Step(w), ~At(w, "idle"),
         session'[w].at = "idle"
  PROVE  \/ RejectAnalysis(w) \/ ConcludeCreation(w) \/ CreationFails(w)
         \/ DecisionConflict(w) \/ MarkRejected(w) \/ PauseAfterApproval(w)
         \/ CompleteAction(w) \/ ExecutionFails(w) \/ RequestDies(w)
<1>1. ~Arrive(w)
  BY DEF Arrive, CreateTask, Approve, Reject, Resume, ReadForDecision
<1> QED BY <1>1, ProceedToIdle DEF Step

\* What a step of w does for the task it works on.
LEMMA OwnTask ==
  ASSUME IInv, OnlyTheInsertIsRefused, NoRivals, "crash" \notin Faults,
         NEW w \in Workers, ~At(w, "idle"), Step(w), NEW t \in Tasks,
         t = session[w].task
  PROVE  \/ session'[w].task = t /\ Carries(w)'
         \/ Settled(t)'
         \/ /\ ~Carries(w)
            /\ tasks'[t].state = tasks[t].state
            /\ tasks'[t].mode = tasks[t].mode
<1>0. TypeInv /\ Frame(w)
  BY NextFrame DEF IInv
<1>1. /\ Exists(t) /\ tasks[t] \in Row
      /\ tasks'[t].mode = tasks[t].mode
      /\ \/ tasks'[t].state = tasks[t].state
         \/ Stores(session[w].at, tasks[t], tasks'[t].state)
  BY <1>0, InProgress DEF Frame, RowsStep
<1>2. CASE session'[w].at # "idle"
  <2>1. Moves(session[w].at, session'[w].at) /\ session'[w].task = t
    BY <1>0, <1>2 DEF Frame, SessionStep, Idle
  <2>2. CASE session'[w].at \in Creating \cup Written \cup
                               {"resume", "execute", "open", "find"}
    BY <2>1, <2>2 DEF Carries
  <2>3. CASE session[w].at \in {"approve", "reject"}
    BY <1>1, <2>3 DEF Stores, Creating, Carries, Written
  <2>4. CASE At(w, "mark_approved") /\ session'[w].at = "pause"
    <3>1. MarkApproved(w)
      BY <1>0, <1>2, <2>4, StepFrom
    <3>2. session'[w].at = AfterApproval(tasks[t])
      BY <1>0, <3>1, NewSession DEF MarkApproved
    <3>3. tasks[t].mode = "pause_after_approval"
      BY <2>4, <3>2 DEF AfterApproval
    <3>4. tasks'[t].state = "APPROVED"
      BY <1>0, <1>1, <3>1, StoredState DEF MarkApproved, Transition
    <3> QED BY <1>1, <3>3, <3>4 DEF Settled
  <2>5. CASE At(w, "find") /\ session'[w].at = "count"
    <3>1. /\ FindByKey(tasks[t].preview) = {}
          /\ tickets' = tickets
          /\ tasks' = tasks
      BY <1>0, <1>2, <2>5, StepFrom, NewSession DEF FindTicket, MissTicket
    <3> QED BY <2>1, <2>5, <3>1 DEF Carries, FindByKey
  <2>6. CASE At(w, "count") /\ session'[w].at = "insert"
    <3>1. tickets' = tickets /\ tasks' = tasks
      BY <1>0, <1>2, <2>6, StepFrom DEF CountTickets
    <3> QED BY <2>1, <2>6, <3>1 DEF Carries, FindByKey, Creating, Written
  <2> QED BY <2>1, <2>2, <2>3, <2>4, <2>5, <2>6 DEF Moves, Creating, Written
<1>3. CASE session'[w].at = "idle"
  <2>1. CASE RejectAnalysis(w) \/ CreationFails(w) \/ MarkRejected(w)
             \/ CompleteAction(w)
    <3>1. tasks'[t].state \in {"FAILED", "REJECTED", "COMPLETED"}
      BY <1>0, <1>1, <2>1, StoredState
      DEF RejectAnalysis, CreationFails, MarkRejected, CompleteAction, Transition
    <3> QED BY <3>1 DEF Settled
  <2>2. CASE ConcludeCreation(w)
    <3>1. tasks'[t].state = Conclusion(tasks[t])
      BY <1>0, <1>1, <2>2, StoredState DEF ConcludeCreation, Transition
    <3> QED BY <3>1 DEF Settled, Conclusion
  <2>3. CASE DecisionConflict(w) \/ PauseAfterApproval(w)
    BY <2>3 DEF DecisionConflict, PauseAfterApproval, Carries, Creating, Written
  <2>4. CASE ExecutionFails(w)
    <3>1. At(w, "insert") /\ tasks' = tasks
      BY <2>4 DEF ExecutionFails, OnlyTheInsertIsRefused
    <3>2. Clashes(TaskRow(w).preview, session[w].result.num)
      BY <2>4, <3>1 DEF ExecutionFails, ExecutionRefused
    <3>3. FindByKey(TaskRow(w).preview) # {}
      BY <3>1, <3>2 DEF Clashes, NoRivals, FindByKey
    <3> QED BY <3>1, <3>3 DEF Carries, Creating, Written
  <2> QED BY <1>0, <1>3, <2>1, <2>2, <2>3, <2>4, StepToIdle DEF RequestDies
<1> QED BY <1>2, <1>3

\* Another request goes on carrying its task, unless w inserts the ticket.
LEMMA OtherCarries ==
  ASSUME IInv, NoRivals, NEW w \in Workers, Step(w),
         NEW v \in Workers \ {w}, Carries(v)
  PROVE  \E x \in Workers : /\ session'[x].task = session[v].task
                            /\ Carries(x)'
<1>0. Frame(w) /\ ~At(v, "idle")
  BY NextFrame DEF IInv, Carries, Creating, Written
<1>1. session'[v] = session[v]
  BY <1>0 DEF Frame, SessionStep, OnlySession
<1>2. CASE session[v].at \in Creating \cup Written \cup
                            {"resume", "execute", "open", "find"}
  BY <1>1, <1>2 DEF Carries
<1>3. CASE /\ session[v].at \in {"count", "insert"}
           /\ FindByKey(TaskRow(v).preview) = {}
  <2>1. /\ session[v].task \in Tasks
        /\ tasks[session[v].task] # NoValue
        /\ tasks'[session[v].task].preview = TaskRow(v).preview
    BY <1>0, <1>3, ExecutedRow DEF Executing
  <2>2. CASE tickets' = tickets
    BY <1>1, <1>3, <2>1, <2>2 DEF Carries, FindByKey
  <2>3. CASE InsertTicket(w)
    <3>1. session'[w].at \in Written /\ session'[w].task = session[w].task
      BY <2>3, NewSession DEF InsertTicket, AfterInsert, Written, IInv
    <3>2. /\ tickets' = tickets \cup
               {[key |-> TaskRow(w).preview, num |-> session[w].result.num]}
          /\ session[w].at \in Executing
      BY <2>3 DEF InsertTicket, AddTicket, Executing
    <3>3. CASE TaskRow(w).preview = TaskRow(v).preview
      <4>1. /\ session[w].task \in Tasks
            /\ tasks[session[w].task] # NoValue
            /\ TaskRow(w).preview # NoValue
        BY <2>3, <3>2, ExecutedRow
        DEF InsertTicket, IInv, TypeInv, SessionsOK, Sound, InGateway
      <4>2. session[w].task = session[v].task
        BY <2>1, <3>3, <4>1 DEF NoRivals
      <4> QED BY <3>1, <4>2 DEF Carries
    <3>4. CASE TaskRow(w).preview # TaskRow(v).preview
      <4>1. FindByKey(TaskRow(v).preview)' = {}
        BY <1>1, <1>3, <2>1, <3>2, <3>4 DEF FindByKey
      <4> QED BY <1>1, <1>3, <4>1 DEF Carries
    <3> QED BY <3>3, <3>4
  <2> QED BY <1>0, <2>2, <2>3 DEF Frame
<1> QED BY <1>2, <1>3 DEF Carries
LEMMA CarriedKept ==
  ASSUME IInv, OnlyTheInsertIsRefused, NoRivals, CarriedInv,
         "crash" \notin Faults, NEW w \in Workers, Step(w)
  PROVE  CarriedInv'
<1>0. TypeInv /\ Frame(w)
  BY NextFrame DEF IInv
<1> SUFFICES ASSUME NEW t \in Tasks, tasks'[t] # NoValue, ~Settled(t)'
             PROVE  \E x \in Workers : session'[x].task = t /\ Carries(x)'
  BY DEF CarriedInv
<1>1. CASE ~Exists(t)
  <2>1. At(w, "idle") /\ tasks'[t].state = "RECEIVED"
    BY <1>0, <1>1 DEF Frame, RowsStep
  <2>2. Arrive(w) /\ tasks' # tasks
    BY <1>1, <2>1, IdleWaits DEF Step
  <2>3. PICK s \in Tasks, u \in Users, p \in Projects, action \in RequestedAction,
             research \in BOOLEAN, mode \in Modes :
          CreateTask(w, s, u, p, action, research, mode)
    BY <2>2 DEF Arrive, Approve, Reject, Resume, ReadForDecision
  <2>4. s = t
    <3> DEFINE row == NewRow(u, p, action, ChooseLane(research, action), mode)
    <3>1. tasks' = [tasks EXCEPT ![s] = row]
      BY <2>3 DEF CreateTask
    <3> HIDE DEF row
    <3> QED BY <1>0, <1>1, <3>1 DEF TypeInv, TypeOK
  <2>5. session'[w].task = t /\ session'[w].at = "contract"
    BY <1>0, <2>3, <2>4 DEF CreateTask, Begin, TypeInv, TypeOK
  <2> QED BY <2>5 DEF Carries, Creating
<1>2. CASE Exists(t) /\ (~At(w, "idle") /\ t = session[w].task)
  <2>1. CASE session'[w].task = t /\ Carries(w)'
    BY <2>1
  <2>2. CASE /\ ~Carries(w)
             /\ tasks'[t].state = tasks[t].state
             /\ tasks'[t].mode = tasks[t].mode
    <3>1. ~Settled(t)
      BY <2>2 DEF Settled
    <3>2. PICK v \in Workers : session[v].task = t /\ Carries(v)
      BY <1>2, <3>1 DEF CarriedInv
    <3> QED BY <2>2, <3>2, OtherCarries
  <2> QED BY <1>2, <2>1, <2>2, OwnTask
<1>3. CASE Exists(t) /\ ~(~At(w, "idle") /\ t = session[w].task)
  <2>1. /\ tasks'[t].state = tasks[t].state
        /\ tasks'[t].mode = tasks[t].mode
    BY <1>0, <1>3, OwnStateOnly DEF Frame, RowsStep
  <2>2. ~Settled(t)
    BY <2>1 DEF Settled
  <2>3. PICK v \in Workers : session[v].task = t /\ Carries(v)
    BY <1>3, <2>2 DEF CarriedInv
  <2>4. v # w
    BY <1>3, <2>3 DEF Carries, Creating, Written
  <2> QED BY <2>3, <2>4, OtherCarries
<1> QED BY <1>1, <1>2, <1>3

LEMMA InitCarried == Init => CarriedInv
  BY DEF Init, CarriedInv

LEMMA NextCarried ==
  ASSUME "crash" \notin Faults
  PROVE  /\ IInv /\ OnlyTheInsertIsRefused /\ NoRivals /\ CarriedInv
         /\ [Next]_vars
         => CarriedInv'
<1> SUFFICES ASSUME IInv, OnlyTheInsertIsRefused, NoRivals, CarriedInv,
                    [Next]_vars
             PROVE  CarriedInv'
  OBVIOUS
<1>1. CASE UNCHANGED vars
  <2>1. \A t \in Tasks : Settled(t)' <=> Settled(t)
    BY <1>1 DEF vars, Settled
  <2>2. \A w \in Workers : Carries(w)' <=> Carries(w)
    BY <1>1 DEF vars, Carries, FindByKey
  <2> QED BY <1>1, <2>1, <2>2 DEF vars, CarriedInv
<1> QED BY <1>1, CarriedKept DEF Next, Step

\* Without crashes, and while executions do not compete for a key or a number,
\* no request leaves a task behind: when the server is quiet every task waits
\* for its client or is finished, however the requests overlapped and whatever
\* statement of creation raised.
THEOREM NoTaskIsLeftBehind ==
  ASSUME "crash" \notin Faults
  PROVE  Spec /\ []NoRivals => []QuietTasksAreSettled
<1>1. CarriedInv => QuietTasksAreSettled
  BY DEF CarriedInv, QuietTasksAreSettled, Quiet, Carries, Creating, Written
<1> QED BY <1>1, InitCarried, NextCarried, DecisionInvariant,
           RefusalsComeFromTheInsert, PTL
        DEF Spec

\* Requests for one task never compete: the tickets there are carry its key.
LEMMA OneTaskHasNoRivals ==
  ASSUME \A t, u \in Tasks : t = u, TypeInv, NoWriteBeforeApproval
  PROVE  NoRivals
<1>1. ASSUME NEW w \in Workers, At(w, "insert"), NEW x \in tickets
      PROVE  x.key = TaskRow(w).preview
  <2>1. session[w].task \in Tasks
    BY <1>1, InProgress
  <2> QED BY <2>1 DEF NoWriteBeforeApproval
<1> QED BY <1>1 DEF NoRivals

\* The instance with one task, for any number of overlapping requests.
THEOREM OneTaskIsNotLeftBehind ==
  ASSUME "crash" \notin Faults, \A t, u \in Tasks : t = u
  PROVE  Spec => []QuietTasksAreSettled
<1>1. TypeInv /\ NoWriteBeforeApproval => NoRivals
  BY OneTaskHasNoRivals
<1> QED BY <1>1, NoTaskIsLeftBehind, TypeInvariant, WritesAreApproved, PTL
=============================================================================
