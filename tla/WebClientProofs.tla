-------------------------- MODULE WebClientProofs ---------------------------
(***************************************************************************)
(* Proofs about WebClient, for any number of pages, requests, tasks and    *)
(* other clients, with connections that break and answers that overtake    *)
(* each other.                                                             *)
(*                                                                         *)
(* Every step of the pages is a step of the workflow or leaves its tables  *)
(* alone (WebIsWorkflow), so that what is proved of TaskWorkflow holds     *)
(* here.  What a page says stays true because the server says it only when *)
(* the tables bear it out, and because what bears it out is never taken    *)
(* back: TrueView says what that is for a view, and ViewsAreTrue that it   *)
(* holds of every view, rendered or still on its way.                      *)
(*                                                                         *)
(* That a page also shows the current state of a task it has for itself    *)
(* needs more: how far a row may be from a view of it (ViewsFollowed), who *)
(* goes on with it (ConfirmersWork) and, for each task that no other       *)
(* client has acted on, that one page knows it, that an answer on its way  *)
(* is the last word on it, and why the page may still show an older state  *)
(* (Owned).  A step leaves a task aside (Aside) or is one of the few that  *)
(* have a lemma of their own (OwnRender and the following).                *)
(***************************************************************************)
EXTENDS WebClient, TaskOutcomeProofs

USE DEF At, TaskRow, Exists

\* What the words of a page say of its task.
TrueView(v) ==
  /\ Exists(v.task)
  /\ v.state = "REJECTED" => Denied(v.task)
  /\ v.state = "APPROVED" => Granted(v.task)
  /\ v.receipt # NoValue =>
       /\ Granted(v.task)
       /\ \E x \in FindByKey(tasks[v.task].preview) : x.num = v.receipt.num

RejectedAreDenied ==
  \A t \in Tasks : Exists(t) /\ tasks[t].state = "REJECTED" => Denied(t)

PausersSeeApproval ==
  \A w \in Workers : At(w, "pause") => session[w].seen = "APPROVED"

ViewsAreTrue ==
  /\ \A p \in Pages : shown[p] # NoValue => TrueView(shown[p])
  /\ \A a \in answers : a.view # NoValue => TrueView(a.view)

DecidedInv == RejectedAreDenied /\ PausersSeeApproval

-----------------------------------------------------------------------------
(* A step of the pages is a step of the workflow, or none.                 *)

\* Views are of tasks that are there.
ViewsExist ==
  /\ \A p \in Pages : shown[p] # NoValue => Exists(shown[p].task)
  /\ \A a \in answers : a.view # NoValue => Exists(a.view.task)

WebTyped == TypeInv /\ WebTypeOK /\ ViewsExist

LEMMA ApproverIsUser ==
  ASSUME NEW u, NEW p, CanApprove(u, p)
  PROVE  u \in Users
  BY PolicyAssumption DEF CanApprove, MembershipsOf, Membership

\* The steps of the workflow that the pages bring about.
LEMMA ClickSteps ==
  ASSUME WebTypeOK, NEW p \in Pages, NEW w \in Workers,
         ClickRun(p, w) \/ ClickDecision(p, w)
  PROVE  Arrive(w)
<1>1. CASE ClickRun(p, w)
  BY <1>1 DEF ClickRun, Arrive
<1>2. CASE ClickDecision(p, w)
  <2>1. shown[p] # NoValue
    BY <1>2 DEF ClickDecision, OffersDecision, OffersResume, Shows
  <2>2. shown[p].task \in Tasks
    BY <2>1 DEF WebTypeOK, View
  <2>3. ASSUME NEW state, NEW place,
               ReadForDecision(w, shown[p].task, Clerk, state, place)
        PROVE  Clerk \in Users
    BY <2>3, ApproverIsUser DEF ReadForDecision, MayDecide
  <2>4. Clerk \in Users
    BY <1>2, <2>3 DEF ClickDecision, Approve, Reject, Resume
  <2> QED BY <1>2, <2>2, <2>4 DEF ClickDecision, Arrive
<1> QED BY <1>1, <1>2

LEMMA WebStep ==
  ASSUME WebTypeOK, [NextWeb]_<<vars, webVars>>
  PROVE  UNCHANGED vars \/ \E w \in Workers : Step(w)
<1>1. ASSUME NEW p \in Pages, ClickOnCompleted(p) \/ Reload(p)
      PROVE  UNCHANGED vars
  BY <1>1 DEF ClickOnCompleted, Reload
<1>2. ASSUME NEW w \in Workers,
             \/ ArriveElsewhere(w) \/ Serve(w) \/ ServeCreationError(w)
             \/ BreakWaiting(w)
      PROVE  UNCHANGED vars \/ Step(w)
  BY <1>2 DEF ArriveElsewhere, Serve, ServeCreationError, BreakWaiting, Step
<1>3. ASSUME NEW a \in answers, Render(a) \/ BreakAnswered(a)
      PROVE  UNCHANGED vars
  BY <1>3 DEF Render, BreakAnswered
<1>4. ASSUME NEW p \in Pages, NEW w \in Workers, ClickRun(p, w) \/ ClickDecision(p, w)
      PROVE  Step(w)
  BY <1>4, ClickSteps DEF Step
<1> QED BY <1>1, <1>2, <1>3, <1>4 DEF NextWeb

-----------------------------------------------------------------------------
(* Types.                                                                  *)

LEMMA ViewOfType ==
  ASSUME TypeOK, NEW t \in Tasks, Exists(t)
  PROVE  /\ ViewOf(t) \in View
         /\ ViewOf(t).task = t
         /\ ViewOf(t).state = tasks[t].state
         /\ ViewOf(t).receipt = tasks[t].receipt
<1>1. tasks[t] \in Row
  BY DEF TypeOK
<1> QED BY <1>1 DEF ViewOf, View, Row

LEMMA ViewBySessionType ==
  ASSUME TypeInv, TypeOK', NEW w \in Workers, Step(w), ~At(w, "idle")
  PROVE  /\ ViewBySession(w) \in View
         /\ ViewBySession(w).task = session[w].task
         /\ IF At(w, "complete") THEN ViewBySession(w).receipt = session[w].result
            ELSE ViewBySession(w).receipt = NoValue
         /\ IF At(w, "pause") THEN ViewBySession(w).state = session[w].seen
            ELSE ViewBySession(w).state = tasks'[session[w].task].state
<1>1. /\ session[w].task \in Tasks /\ session[w].seen \in TaskState
      /\ Exists(session[w].task)
      /\ session[w].result \in Receipt \cup {NoValue}
  BY InProgress DEF TypeInv, TypeOK, Session
<1>2. tasks'[session[w].task] # NoValue
  BY <1>1, NextFrame DEF Frame, RowsStep
<1>3. tasks'[session[w].task] \in Row
  BY <1>1, <1>2 DEF TypeOK
<1> DEFINE row == tasks'[session[w].task]
           state == IF At(w, "pause") THEN session[w].seen ELSE row.state
           receipt == IF At(w, "complete") THEN session[w].result ELSE NoValue
           view == [task |-> session[w].task, state |-> state, receipt |-> receipt]
<1>4. receipt \in Receipt \cup {NoValue} /\ state \in TaskState
  BY <1>1, <1>3 DEF Row
<1>5. ViewBySession(w) = view
  BY DEF ViewBySession
<1> HIDE DEF row, state, receipt
<1>6. /\ view \in View
      /\ view.task = session[w].task
      /\ view.receipt = receipt
      /\ view.state = state
  BY <1>1, <1>4 DEF View
<1> HIDE DEF view
<1> QED BY <1>5, <1>6 DEF row, state, receipt

\* What a step of the pages does to the views: the new ones are what the
\* server says of a task in the tables it leaves.
NewViews(views) ==
  \/ views = {}
  \/ \E p \in Pages :
       /\ shown[p] # NoValue
       /\ tasks[shown[p].task].state = "COMPLETED"
       /\ UNCHANGED vars
       /\ views = {ViewOf(shown[p].task)}
  \/ \E w \in Workers :
       /\ Proceed(w) /\ session'[w].at = "idle" /\ session[w].at \in Succeeding
       /\ views = {ViewBySession(w)}

ViewsStep ==
  /\ \A p \in Pages :
       \/ shown'[p] = shown[p]
       \/ shown'[p] = NoValue
       \/ \E a \in answers : shown'[p] = a.view
  /\ \E views :
       /\ NewViews(views)
       /\ \A a \in answers' :
            \/ a \in answers
            \/ \E q \in Pages, run \in BOOLEAN, view \in views \cup {NoValue} :
                 a = [page |-> q, run |-> run, view |-> view]
\* The answers of a step that lets a request of page sender[w] end.
LEMMA ReplyAdds ==
  ASSUME WebTypeOK, NEW w \in Workers, NEW view, Reply(w, view)
  PROVE  \A a \in answers' :
           \/ a \in answers
           \/ \E q \in Pages, run \in BOOLEAN :
                a = [page |-> q, run |-> run, view |-> view]
<1>1. sender[w] \in Pages \cup {NoValue} /\ InCreation(w) \in BOOLEAN
  BY DEF WebTypeOK, InCreation
<1> QED BY <1>1 DEF Reply

LEMMA WebViews ==
  ASSUME WebTyped, NextWeb
  PROVE  ViewsStep
<1>0. TypeInv /\ WebTypeOK
  BY DEF WebTyped
<1> DEFINE SameShown == \A p \in Pages : shown'[p] = shown[p]
           FewerAnswers == \A a \in answers' : a \in answers
<1>1. ASSUME NEW p \in Pages, NEW w \in Workers, ClickRun(p, w) \/ ClickDecision(p, w)
      PROVE  ViewsStep
  BY <1>1 DEF ClickRun, ClickDecision, ViewsStep, NewViews
<1>2. ASSUME NEW p \in Pages, ClickOnCompleted(p)
      PROVE  ViewsStep
  <2>1. /\ shown[p] # NoValue
        /\ tasks[shown[p].task].state = "COMPLETED"
        /\ UNCHANGED vars
    BY <1>2 DEF ClickOnCompleted, AnswersCompleted, OffersDecision, OffersResume, Shows
  <2>2. NewViews({ViewOf(shown[p].task)})
    BY <2>1 DEF NewViews
  <2>3. \A a \in answers' :
          \/ a \in answers
          \/ \E q \in Pages, run \in BOOLEAN,
                view \in {ViewOf(shown[p].task)} \cup {NoValue} :
               a = [page |-> q, run |-> run, view |-> view]
    BY <1>2 DEF ClickOnCompleted
  <2>4. shown' = shown
    BY <1>2 DEF ClickOnCompleted
  <2> QED BY <2>2, <2>3, <2>4 DEF ViewsStep
<1>3. ASSUME NEW p \in Pages, Reload(p)
      PROVE  ViewsStep
  BY <1>0, <1>3 DEF Reload, ViewsStep, NewViews, WebTypeOK
<1>4. ASSUME NEW w \in Workers, Serve(w), session'[w].at # "idle"
      PROVE  ViewsStep
  BY <1>4 DEF Serve, ViewsStep, NewViews
<1>5. ASSUME NEW w \in Workers, Serve(w), session'[w].at = "idle"
      PROVE  ViewsStep
  <2> DEFINE views == IF session[w].at \in Succeeding THEN {ViewBySession(w)} ELSE {}
  <2>1. Proceed(w) /\ shown' = shown
    BY <1>5 DEF Serve
  <2>2. NewViews(views)
    BY <1>5, <2>1 DEF NewViews
  <2>3. \E view \in views \cup {NoValue} : Reply(w, view)
    BY <1>5 DEF Serve
  <2>4. \A a \in answers' :
          \/ a \in answers
          \/ \E q \in Pages, run \in BOOLEAN, view \in views \cup {NoValue} :
               a = [page |-> q, run |-> run, view |-> view]
    BY <1>0, <2>3, ReplyAdds
  <2> QED BY <2>1, <2>2, <2>4 DEF ViewsStep
<1>6. ASSUME NEW w \in Workers, ServeCreationError(w)
      PROVE  ViewsStep
  <2>1. Reply(w, NoValue) /\ shown' = shown
    BY <1>6 DEF ServeCreationError
  <2>2. NewViews({})
    BY DEF NewViews
  <2>3. \A a \in answers' :
          \/ a \in answers
          \/ \E q \in Pages, run \in BOOLEAN, view \in {} \cup {NoValue} :
               a = [page |-> q, run |-> run, view |-> view]
    BY <1>0, <2>1, ReplyAdds
  <2> QED BY <2>1, <2>2, <2>3 DEF ViewsStep
<1>7. ASSUME NEW w \in Workers, ArriveElsewhere(w) \/ BreakWaiting(w)
      PROVE  ViewsStep
  BY <1>7 DEF ArriveElsewhere, BreakWaiting, ViewsStep, NewViews
<1>8. ASSUME NEW a \in answers, Render(a) \/ BreakAnswered(a)
      PROVE  ViewsStep
  <2>1. \A p \in Pages : \/ shown'[p] = shown[p]
                         \/ \E b \in answers : shown'[p] = b.view
    BY <1>0, <1>8 DEF Render, BreakAnswered, WebTypeOK
  <2>2. answers' \subseteq answers
    BY <1>8 DEF Render, BreakAnswered
  <2> QED BY <2>1, <2>2 DEF ViewsStep, NewViews
<1> QED BY <1>1, <1>2, <1>3, <1>4, <1>5, <1>6, <1>7, <1>8 DEF NextWeb
LEMMA NewViewsTyped ==
  ASSUME WebTyped, TypeInv', NEW views, NewViews(views)
  PROVE  \A v \in views : v \in View /\ tasks'[v.task] # NoValue
<1>0. TypeInv /\ WebTypeOK /\ TypeOK /\ TypeOK'
  BY DEF WebTyped, TypeInv
<1>1. ASSUME NEW p \in Pages, shown[p] # NoValue, UNCHANGED vars
      PROVE  /\ ViewOf(shown[p].task) \in View
             /\ tasks'[ViewOf(shown[p].task).task] # NoValue
  <2>1. shown[p].task \in Tasks /\ Exists(shown[p].task)
    BY <1>1 DEF WebTyped, WebTypeOK, ViewsExist, View
  <2> QED BY <1>0, <1>1, <2>1, ViewOfType DEF vars
<1>2. ASSUME NEW w \in Workers, Step(w), ~At(w, "idle")
      PROVE  /\ ViewBySession(w) \in View
             /\ tasks'[ViewBySession(w).task] # NoValue
  <2>1. /\ ViewBySession(w) \in View
        /\ ViewBySession(w).task = session[w].task
    BY <1>0, <1>2, ViewBySessionType
  <2>2. session[w].task \in Tasks /\ Exists(session[w].task)
    BY <1>0, <1>2, InProgress
  <2>3. tasks'[session[w].task] # NoValue
    BY <1>0, <1>2, <2>2, NextFrame DEF Frame, RowsStep
  <2> QED BY <2>1, <2>3
<1>3. \A w \in Workers : Proceed(w) => Step(w) /\ ~At(w, "idle")
  BY IdleWaits DEF Step
<1> QED BY <1>1, <1>2, <1>3 DEF NewViews

\* A request that ends has no page that waits for it.
LEMMA SendersWait ==
  ASSUME WebTyped, NextWeb
  PROVE  /\ sender' \in [Workers -> Pages \cup {NoValue}]
         /\ running' \subseteq Pages
         /\ \A w \in Workers : sender'[w] # NoValue => session'[w].at # "idle"
<1>0. /\ TypeInv
      /\ sender \in [Workers -> Pages \cup {NoValue}]
      /\ running \subseteq Pages
      /\ \A w \in Workers : sender[w] # NoValue => session[w].at # "idle"
  BY DEF WebTyped, WebTypeOK
<1> DEFINE Waits == \A w \in Workers : sender'[w] # NoValue => session'[w].at # "idle"
           Goal == /\ sender' \in [Workers -> Pages \cup {NoValue}]
                   /\ running' \subseteq Pages
                   /\ Waits
<1>1. ASSUME NEW w \in Workers, Step(w)
      PROVE  \A v \in Workers \ {w} : session'[v] = session[v]
  BY <1>0, <1>1, NextFrame DEF Frame, SessionStep, OnlySession
<1>2. ASSUME NEW p \in Pages, NEW w \in Workers, ClickRun(p, w) \/ ClickDecision(p, w)
      PROVE  Goal
  <2>1. Arrive(w)
    BY <1>2, ClickSteps DEF WebTyped
  <2>2. session'[w].at # "idle"
    BY <1>0, <2>1
    DEF Arrive, CreateTask, Approve, Reject, Resume, ReadForDecision, Begin,
        TypeInv, TypeOK
  <2>3. sender' = [sender EXCEPT ![w] = p] /\ running' \subseteq Pages
    BY <1>0, <1>2 DEF ClickRun, ClickDecision
  <2>4. Step(w)
    BY <2>1 DEF Step
  <2> QED BY <1>0, <1>1, <2>2, <2>3, <2>4
<1>3. ASSUME NEW p \in Pages, ClickOnCompleted(p) \/ Reload(p)
      PROVE  Goal
  <2>1. session' = session /\ running' \subseteq Pages
    BY <1>0, <1>3 DEF ClickOnCompleted, Reload, vars
  <2>2. \/ sender' = sender
        \/ sender' = [w \in Workers |-> IF sender[w] = p THEN NoValue ELSE sender[w]]
    BY <1>3 DEF ClickOnCompleted, Reload
  <2> QED BY <1>0, <2>1, <2>2
<1>4. ASSUME NEW w \in Workers, ArriveElsewhere(w)
      PROVE  Goal
  <2>1. Step(w) /\ At(w, "idle") /\ sender' = sender /\ running' = running
    BY <1>4 DEF ArriveElsewhere, Step, Arrive, CreateTask, Approve, Reject, Resume,
                ReadForDecision
  <2> QED BY <1>0, <1>1, <2>1
<1>5. ASSUME NEW w \in Workers, Serve(w) \/ ServeCreationError(w)
      PROVE  Goal
  <2>1. Step(w) /\ running' = running
    BY <1>5 DEF Serve, ServeCreationError, Step
  <2>2. \/ sender' = sender /\ session'[w].at # "idle"
        \/ sender' = [sender EXCEPT ![w] = NoValue]
    BY <1>5 DEF Serve, ServeCreationError
  <2> QED BY <1>0, <1>1, <2>1, <2>2
<1>6. ASSUME NEW w \in Workers, BreakWaiting(w)
      PROVE  Goal
  <2>1. /\ session' = session /\ running' \subseteq Pages
        /\ sender' = [sender EXCEPT ![w] = NoValue]
    BY <1>0, <1>6 DEF BreakWaiting, vars
  <2> QED BY <1>0, <2>1
<1>7. ASSUME NEW a \in answers, Render(a) \/ BreakAnswered(a)
      PROVE  Goal
  <2>1. session' = session /\ sender' = sender /\ running' \subseteq Pages
    BY <1>0, <1>7 DEF Render, BreakAnswered, Settle, vars
  <2> QED BY <1>0, <2>1
<1> QED BY <1>2, <1>3, <1>4, <1>5, <1>6, <1>7 DEF NextWeb

LEMMA NextWebTyped ==
  WebTyped /\ [NextWeb]_<<vars, webVars>> => WebTyped'
<1> SUFFICES ASSUME WebTyped, [NextWeb]_<<vars, webVars>>
             PROVE  WebTyped'
  OBVIOUS
<1>0. TypeInv /\ WebTypeOK
  BY DEF WebTyped
<1>1. UNCHANGED vars \/ \E w \in Workers : Step(w)
  BY <1>0, WebStep
<1>2. TypeInv'
  BY <1>0, <1>1, NextType DEF Next, Step
<1>3. CASE UNCHANGED <<vars, webVars>>
  BY <1>2, <1>3 DEF WebTyped, WebTypeOK, ViewsExist, vars, webVars
<1>4. CASE NextWeb
  <2>1. ViewsStep
    BY <1>4, WebViews
  <2>2. \A t \in Tasks : Exists(t) => tasks'[t] # NoValue
    BY <1>0, <1>1, NextFrame DEF vars, Frame, RowsStep
  <2>3. \A a \in answers : /\ a \in Answer
                           /\ a.view # NoValue => Exists(a.view.task)
    BY DEF WebTyped, WebTypeOK, ViewsExist
  <2>4. PICK views :
          /\ \A v \in views : v \in View /\ tasks'[v.task] # NoValue
          /\ \A a \in answers' :
               \/ a \in answers
               \/ \E q \in Pages, run \in BOOLEAN, view \in views \cup {NoValue} :
                    a = [page |-> q, run |-> run, view |-> view]
    BY <1>2, <2>1, NewViewsTyped DEF ViewsStep
  <2>5. ASSUME NEW a \in answers'
        PROVE  a \in Answer /\ (a.view # NoValue => tasks'[a.view.task] # NoValue)
    <3>1. CASE a \in answers
      <4>1. a.view # NoValue => a.view.task \in Tasks
        BY <2>3, <3>1 DEF Answer, View
      <4> QED BY <2>2, <2>3, <3>1, <4>1
    <3>2. ASSUME NEW q \in Pages, NEW run \in BOOLEAN,
                 NEW view \in views \cup {NoValue},
                 a = [page |-> q, run |-> run, view |-> view]
          PROVE  a \in Answer /\ (a.view # NoValue => tasks'[a.view.task] # NoValue)
      BY <2>4, <3>2 DEF Answer
    <3> QED BY <2>4, <3>1, <3>2
  <2>6. ASSUME NEW p \in Pages
        PROVE  /\ shown'[p] \in View \cup {NoValue}
               /\ shown'[p] # NoValue => tasks'[shown'[p].task] # NoValue
    <3>1. CASE shown'[p] = shown[p]
      BY <2>2, <3>1 DEF WebTyped, WebTypeOK, ViewsExist, View
    <3>2. ASSUME NEW a \in answers, shown'[p] = a.view
          PROVE  /\ shown'[p] \in View \cup {NoValue}
                 /\ shown'[p] # NoValue => tasks'[shown'[p].task] # NoValue
      BY <2>2, <2>3, <3>2 DEF Answer, View
    <3> QED BY <2>1, <3>1, <3>2 DEF ViewsStep
  <2>7. shown' \in [Pages -> View \cup {NoValue}]
    <3>1. shown \in [Pages -> View \cup {NoValue}]
      BY <1>0 DEF WebTypeOK
    <3>2. \/ shown' = shown
          \/ \E p \in Pages : shown' = [shown EXCEPT ![p] = NoValue]
          \/ \E a \in answers : shown' = [shown EXCEPT ![a.page] = a.view]
      BY <1>4
      DEF NextWeb, ClickRun, ClickDecision, ClickOnCompleted, Reload,
          ArriveElsewhere, Serve, ServeCreationError, BreakWaiting, Render,
          BreakAnswered
    <3> QED BY <2>6, <3>1, <3>2
  <2> QED BY <1>2, <1>4, <2>5, <2>6, <2>7, SendersWait
          DEF WebTyped, WebTypeOK, ViewsExist
<1> QED BY <1>3, <1>4

LEMMA InitWebTyped == InitWeb => WebTyped
<1> SUFFICES ASSUME InitWeb PROVE WebTyped
  OBVIOUS
<1>1. TypeInv
  BY InitTypeInv DEF InitWeb
<1> QED BY <1>1 DEF InitWeb, WebTyped, WebTypeOK, ViewsExist

LEMMA WebTypedInvariant == SpecWeb => []WebTyped
  BY InitWebTyped, NextWebTyped, PTL DEF SpecWeb

\* The pages, the requests they wait for and the answers on their way hold
\* values of their types, and no page waits for a request that has ended.
THEOREM PagesAreTyped == SpecWeb => []WebTypeOK
<1>1. WebTyped => WebTypeOK
  BY DEF WebTyped
<1> QED BY <1>1, WebTypedInvariant, PTL

\* Whatever is clicked, lost, reloaded or answered out of order, behind the
\* pages the workflow runs as if they were not there.
THEOREM WebIsWorkflow == SpecWeb => Spec
<1>1. InitWeb => Init
  BY DEF InitWeb
<1>2. WebTyped /\ [NextWeb]_<<vars, webVars>> => [Next]_vars
  BY WebStep DEF WebTyped, Next, Step
<1> QED BY <1>1, <1>2, WebTypedInvariant, PTL DEF SpecWeb, Spec
-----------------------------------------------------------------------------
(* What the server says is true.                                           *)

LEMMA DecidedKept ==
  ASSUME IInv, DecidedInv, NEW w \in Workers, Step(w)
  PROVE  DecidedInv'
<1>0. TypeInv /\ Frame(w) /\ approvals \subseteq approvals'
  BY NextFrame, ApprovalsStay DEF IInv
<1>1. ASSUME NEW t \in Tasks, tasks'[t] # NoValue, tasks'[t].state = "REJECTED"
      PROVE  \E a \in approvals' : a.task = t /\ a.decision = "rejected"
  <2>1. Exists(t) /\ (tasks[t].state = "REJECTED"
                        \/ Stores(session[w].at, tasks[t], "REJECTED"))
    BY <1>0, <1>1 DEF Frame, RowsStep
  <2>2. CASE tasks[t].state = "REJECTED"
    BY <1>0, <2>1, <2>2 DEF DecidedInv, RejectedAreDenied, Denied
  <2>3. CASE tasks[t].state # "REJECTED"
    <3>1. At(w, "mark_rejected")
      BY <2>1, <2>3 DEF Stores, Creating, CreationState, Conclusion
    <3>2. session[w].task = t
      BY <1>1, <2>3, OwnStateOnly, <1>0, <2>1
    <3>3. Denied(t)
      BY <3>1, <3>2 DEF IInv, DecisionInv, DeniersDenied
    <3> QED BY <1>0, <3>3 DEF Denied
  <2> QED BY <2>2, <2>3
<1>2. ASSUME NEW v \in Workers, session'[v].at = "pause"
      PROVE  session'[v].seen = "APPROVED"
  <2>1. CASE v # w
    BY <1>0, <1>2, <2>1 DEF Frame, SessionStep, OnlySession, DecidedInv, PausersSeeApproval
  <2>2. CASE v = w
    <3>1. At(w, "mark_approved")
      BY <1>0, <1>2, <2>2 DEF Frame, SessionStep, Moves, Idle
    <3>2. MarkApproved(w)
      BY <1>0, <1>2, <2>2, <3>1, StepFrom
    <3> QED BY <1>0, <2>2, <3>2, NewSession DEF MarkApproved
  <2> QED BY <2>1, <2>2
<1> QED BY <1>1, <1>2 DEF DecidedInv, RejectedAreDenied, PausersSeeApproval, Denied

LEMMA DecidedInvariant == Spec => []DecidedInv
<1>1. Init => DecidedInv
  BY DEF Init, Idle, DecidedInv, RejectedAreDenied, PausersSeeApproval
<1>2. IInv /\ DecidedInv /\ [Next]_vars => DecidedInv'
  <2> SUFFICES ASSUME IInv, DecidedInv, [Next]_vars PROVE DecidedInv'
    OBVIOUS
  <2>1. CASE UNCHANGED vars
    BY <2>1 DEF vars, DecidedInv, RejectedAreDenied, PausersSeeApproval, Denied
  <2> QED BY <2>1, DecidedKept DEF Next, Step
<1> QED BY <1>1, <1>2, DecisionInvariant, PTL DEF Spec

\* TrueView of the next state, for a view of this one or of the next.
TrueNext(v) ==
  /\ tasks'[v.task] # NoValue
  /\ v.state = "REJECTED" =>
       \E a \in approvals' : a.task = v.task /\ a.decision = "rejected"
  /\ v.state = "APPROVED" =>
       \E a \in approvals' : a.task = v.task /\ a.decision = "approved"
  /\ v.receipt # NoValue =>
       /\ \E a \in approvals' : a.task = v.task /\ a.decision = "approved"
       /\ \E x \in tickets' : /\ x.key = tasks'[v.task].preview
                              /\ x.num = v.receipt.num

\* A true view stays true.
LEMMA TrueViewStays ==
  ASSUME IInv, UNCHANGED vars \/ \E w \in Workers : Step(w),
         NEW v \in View, TrueView(v)
  PROVE  TrueNext(v)
<1>1. CASE UNCHANGED vars
  BY <1>1 DEF vars, TrueView, TrueNext, Granted, Denied, FindByKey
<1>2. ASSUME NEW w \in Workers, Step(w)
      PROVE  TrueNext(v)
  <2>0. /\ Frame(w) /\ approvals \subseteq approvals' /\ tickets \subseteq tickets'
        /\ v.task \in Tasks /\ Exists(v.task)
    BY <1>2, NextFrame, ApprovalsStay, TicketsStay DEF IInv, TrueView, View
  <2>1. tasks'[v.task] # NoValue
    BY <2>0 DEF Frame, RowsStep
  <2>2. ASSUME v.receipt # NoValue
        PROVE  tasks'[v.task].preview = tasks[v.task].preview
    <3>1. DecisionTaken(v.task)
      BY <2>2 DEF TrueView, Granted, DecisionTaken
    <3> QED BY <2>0, <3>1, DecidedRow
  <2> QED BY <2>0, <2>1, <2>2 DEF TrueView, TrueNext, Granted, Denied, FindByKey
<1> QED BY <1>1, <1>2

\* What the tables of the next state say is true there.
LEMMA RowsAreTrue ==
  ASSUME IInv', TruthInv', DecidedInv', NEW t \in Tasks, tasks'[t] # NoValue,
         NEW v, v.task = t,
         \/ v.receipt \in {NoValue, tasks'[t].receipt}
         \/ /\ \E a \in approvals' : a.task = t /\ a.decision = "approved"
            /\ \E x \in tickets' : x.key = tasks'[t].preview /\ x.num = v.receipt.num,
         \/ v.state = tasks'[t].state
         \/ /\ v.state = "APPROVED"
            /\ \E a \in approvals' : a.task = t /\ a.decision = "approved"
  PROVE  TrueNext(v)
<1>1. /\ tasks'[t].state = "APPROVED" =>
           \E a \in approvals' : a.task = t /\ a.decision = "approved"
      /\ tasks'[t].receipt # NoValue =>
           \E a \in approvals' : a.task = t /\ a.decision = "approved"
  BY DEF IInv, DecisionInv, RowsJustified, Granted
<1>2. tasks'[t].state = "REJECTED" =>
        \E a \in approvals' : a.task = t /\ a.decision = "rejected"
  BY DEF DecidedInv, RejectedAreDenied, Denied
<1>3. tasks'[t].receipt # NoValue =>
        \E x \in tickets' : /\ x.key = tasks'[t].preview
                            /\ x.num = tasks'[t].receipt.num
  BY DEF TruthInv, ReceiptsNameTickets, FindByKey
<1> QED BY <1>1, <1>2, <1>3 DEF TrueNext

LEMMA NewViewsAreTrue ==
  ASSUME WebTyped, IInv, IInv', TruthInv, TruthInv', DecidedInv, DecidedInv',
         NEW views, NewViews(views)
  PROVE  \A v \in views : TrueNext(v)
<1>0. TypeInv /\ TypeOK /\ TypeOK'
  BY DEF IInv, TypeInv
<1>1. ASSUME NEW p \in Pages, shown[p] # NoValue, UNCHANGED vars
      PROVE  TrueNext(ViewOf(shown[p].task))
  <2>1. shown[p].task \in Tasks /\ Exists(shown[p].task) /\ tasks' = tasks
    BY <1>1 DEF WebTyped, WebTypeOK, ViewsExist, View, vars
  <2>2. PICK t \in Tasks : t = shown[p].task
    BY <2>1
  <2>3. PICK v : v = ViewOf(t)
    OBVIOUS
  <2>4. v.task = t /\ v.state = tasks'[t].state /\ v.receipt = tasks'[t].receipt
    BY <1>0, <2>1, <2>2, <2>3, ViewOfType
  <2>5. TrueNext(v)
    BY <2>1, <2>2, <2>4, RowsAreTrue
  <2> QED BY <2>2, <2>3, <2>5
<1>2. ASSUME NEW w \in Workers, Step(w), ~At(w, "idle")
      PROVE  TrueNext(ViewBySession(w))
  <2>1. PICK t \in Tasks : t = session[w].task /\ Exists(t)
    BY <1>0, <1>2, InProgress
  <2>2. PICK v : v = ViewBySession(w)
    OBVIOUS
  <2>3. /\ v.task = t
        /\ IF At(w, "complete") THEN v.receipt = session[w].result
           ELSE v.receipt = NoValue
        /\ IF At(w, "pause") THEN v.state = session[w].seen
           ELSE v.state = tasks'[t].state
    BY <1>0, <1>2, <2>1, <2>2, ViewBySessionType
  <2>4. Frame(w) /\ approvals \subseteq approvals'
    BY <1>0, <1>2, NextFrame, ApprovalsStay
  <2>5. tasks'[t] # NoValue
    BY <2>1, <2>4 DEF Frame, RowsStep
  <2>6. At(w, "pause") =>
          /\ v.state = "APPROVED"
          /\ \E a \in approvals' : a.task = t /\ a.decision = "approved"
    BY <2>1, <2>3, <2>4
    DEF DecidedInv, PausersSeeApproval, IInv, DecisionInv, ExecutorsGranted,
        Executing, Granted
  <2>7. \/ v.state = tasks'[t].state
        \/ /\ v.state = "APPROVED"
           /\ \E a \in approvals' : a.task = t /\ a.decision = "approved"
    BY <2>3, <2>6
  <2>8. ASSUME At(w, "complete")
        PROVE  TrueNext(v)
    <3>1. /\ Granted(t)
          /\ \E x \in FindByKey(tasks[t].preview) : x.num = session[w].result.num
      BY <2>1, <2>8 DEF TruthInv, WritesFound, Written, Confirmed, IInv, DecisionInv,
                        ExecutorsGranted, Executing
    <3>2. /\ tickets \subseteq tickets'
          /\ tasks'[t].preview = tasks[t].preview
      BY <1>2, <2>1, <2>4, <3>1, TicketsStay, DecidedRow DEF Granted, DecisionTaken
    <3>3. /\ \E a \in approvals' : a.task = t /\ a.decision = "approved"
          /\ \E x \in tickets' : x.key = tasks'[t].preview /\ x.num = v.receipt.num
      BY <2>3, <2>4, <2>8, <3>1, <3>2 DEF Granted, FindByKey
    <3> QED BY <2>3, <2>5, <2>7, <3>3, RowsAreTrue
  <2>9. ASSUME ~At(w, "complete")
        PROVE  TrueNext(v)
    <3>1. v.receipt \in {NoValue, tasks'[t].receipt}
      BY <2>3, <2>9
    <3> QED BY <2>3, <2>5, <2>7, <3>1, RowsAreTrue
  <2> QED BY <2>2, <2>8, <2>9
<1>3. \A w \in Workers : Proceed(w) => Step(w) /\ ~At(w, "idle")
  BY IdleWaits DEF Step
<1> QED BY <1>1, <1>2, <1>3 DEF NewViews

LEMMA NextViewsAreTrue ==
  /\ WebTyped /\ WebTyped' /\ IInv /\ IInv' /\ TruthInv /\ TruthInv'
  /\ DecidedInv /\ DecidedInv'
  /\ ViewsAreTrue /\ [NextWeb]_<<vars, webVars>>
  => ViewsAreTrue'
<1> SUFFICES ASSUME WebTyped, IInv, IInv', TruthInv, TruthInv', DecidedInv,
                    DecidedInv', ViewsAreTrue, [NextWeb]_<<vars, webVars>>
             PROVE  ViewsAreTrue'
  OBVIOUS
<1>1. CASE UNCHANGED <<vars, webVars>>
  BY <1>1 DEF ViewsAreTrue, TrueView, Granted, Denied, FindByKey, vars, webVars
<1>2. CASE NextWeb
  <2>0. UNCHANGED vars \/ \E w \in Workers : Step(w)
    BY WebStep DEF WebTyped
  <2>1. PICK views :
          /\ \A v \in views : TrueNext(v)
          /\ \A a \in answers' :
               \/ a \in answers
               \/ \E q \in Pages, run \in BOOLEAN, view \in views \cup {NoValue} :
                    a = [page |-> q, run |-> run, view |-> view]
    BY <1>2, WebViews, NewViewsAreTrue DEF ViewsStep
  <2>2. \A a \in answers : a.view # NoValue => a.view \in View /\ TrueView(a.view)
    BY DEF WebTyped, WebTypeOK, Answer, ViewsAreTrue
  <2>3. \A p \in Pages : shown[p] # NoValue => shown[p] \in View /\ TrueView(shown[p])
    BY DEF WebTyped, WebTypeOK, ViewsAreTrue
  <2>4. \A v \in View : TrueView(v) => TrueNext(v)
    BY <2>0, TrueViewStays
  <2>5. \A a \in answers' : a.view # NoValue => TrueNext(a.view)
    BY <2>1, <2>2, <2>4
  <2>6. \A p \in Pages : shown'[p] # NoValue => TrueNext(shown'[p])
    BY <1>2, <2>2, <2>3, <2>4, WebViews DEF ViewsStep
  <2> QED BY <2>5, <2>6 DEF ViewsAreTrue, TrueView, TrueNext, Granted, Denied, FindByKey
<1> QED BY <1>1, <1>2

\* What a page says of its task, that it was rejected and nothing was written,
\* that it is approved, or which ticket it has, holds for as long as the page
\* shows it, whatever other clients do meanwhile.
THEOREM PagesTellTheTruth == SpecWeb => []PageTellsTheTruth
<1>1. InitWeb => ViewsAreTrue
  BY DEF InitWeb, ViewsAreTrue
<1>2. SpecWeb => []ViewsAreTrue
  BY <1>1, NextViewsAreTrue, WebTypedInvariant, WebIsWorkflow, DecisionInvariant,
     TruthInvariant, DecidedInvariant, PTL
  DEF SpecWeb
<1>3. ViewsAreTrue /\ RejectionIsFinal => PageTellsTheTruth
  BY DEF ViewsAreTrue, TrueView, RejectionIsFinal, PageTellsTheTruth, Granted, Denied
<1> QED BY <1>2, <1>3, WebIsWorkflow, RejectionsAreFinal, PTL
-----------------------------------------------------------------------------
(* What other requests find while a decision is carried out.               *)

\* Between the commit of a decision and that of the task's new state, the row
\* is still APPROVAL_PENDING, and whoever else works on the task is too late.
MarkersAlone ==
  \A w \in Workers : session[w].at \in {"mark_approved", "mark_rejected"} =>
    /\ TaskRow(w).state = "APPROVAL_PENDING"
    /\ \A v \in Workers \ {w} : session[v].task = session[w].task =>
         session[v].at \in {"approve", "reject"}

\* The row that a request finds when it arrives.
LEMMA ArrivalFinds ==
  ASSUME TypeInv, NEW w \in Workers, Arrive(w)
  PROVE  /\ At(w, "idle")
         /\ session'[w].task \in Tasks
         /\ approvals' = approvals
         /\ \/ session'[w].at = "contract" /\ ~Exists(session'[w].task)
            \/ /\ session'[w].at \in {"approve", "reject"}
               /\ tasks' = tasks
               /\ tasks[session'[w].task].state = "APPROVAL_PENDING"
            \/ /\ session'[w].at = "resume"
               /\ tasks' = tasks
               /\ tasks[session'[w].task].state = "APPROVED"
<1>1. session \in [Workers -> Session]
  BY DEF TypeInv, SessionsOK
<1> QED BY <1>1 DEF Arrive, CreateTask, Approve, Reject, Resume, ReadForDecision,
                    MayDecide, Begin

LEMMA MarkersKept ==
  ASSUME IInv, MarkersAlone, NEW w \in Workers, Step(w)
  PROVE  MarkersAlone'
<1>0. TypeInv /\ Frame(w)
  BY NextFrame DEF IInv
<1> SUFFICES ASSUME NEW m \in Workers, NEW t, t = session'[m].task,
                    session'[m].at \in {"mark_approved", "mark_rejected"}
             PROVE  /\ tasks'[t].state = "APPROVAL_PENDING"
                    /\ \A v \in Workers \ {m} : session'[v].task = t =>
                         session'[v].at \in {"approve", "reject"}
  BY DEF MarkersAlone
<1>1. CASE m # w
  <2>1. /\ session'[m] = session[m] /\ t \in Tasks /\ Exists(t) /\ t # NoValue
        /\ tasks[t].state = "APPROVAL_PENDING"
        /\ \A v \in Workers \ {m} : session[v].task = t =>
             session[v].at \in {"approve", "reject"}
        /\ DecisionTaken(t)
    <3>1. session'[m] = session[m]
      BY <1>0, <1>1 DEF Frame, SessionStep, OnlySession
    <3>2. t \in Tasks /\ Exists(t) /\ t # NoValue
      BY <1>0, <3>1, SessionFacts
    <3>3. DecisionTaken(t)
      BY <3>1 DEF IInv, DecisionInv, ExecutorsGranted, DeniersDenied, Granted, Denied,
                  DecisionTaken
    <3> QED BY <3>1, <3>2, <3>3 DEF MarkersAlone
  <2>2. session[w].task = t => session[w].at \in {"approve", "reject"}
    BY <1>1, <2>1
  <2>3. tasks'[t].state = tasks[t].state
    BY <1>0, <2>1, <2>2, OwnStateOnly DEF Frame, RowsStep, Stores, Creating
  <2>4. session'[w].task = t => session'[w].at \in {"approve", "reject"}
    <3> SUFFICES ASSUME session'[w].task = t, session'[w].at \notin {"approve", "reject"}
                 PROVE  FALSE
      OBVIOUS
    <3>1. CASE At(w, "idle")
      <4>1. session'[w].at # "idle"
        BY <1>0, <2>1, <3>1 DEF Frame, SessionStep, Idle
      <4>2. Arrive(w)
        BY <1>0, <3>1, <4>1, StepFrom
      <4> QED BY <1>0, <2>1, <4>2, ArrivalFinds
    <3>2. CASE ~At(w, "idle")
      <4>1. session[w].task = t /\ session'[w].at # "idle"
        BY <1>0, <2>1, <3>2 DEF Frame, SessionStep, Idle, Moves, Creating
      <4>2. StoreApproval(w) \/ StoreRejection(w)
        BY <1>0, <2>2, <4>1, StepFrom
      <4> QED BY <2>1, <4>1, <4>2 DEF StoreApproval, StoreRejection, StoreDecision
    <3> QED BY <3>1, <3>2
  <2> QED BY <1>0, <2>1, <2>3, <2>4 DEF Frame, SessionStep, OnlySession
<1>2. CASE m = w
  <2>1. session[w].at \in {"approve", "reject"} /\ session[w].task = t
    BY <1>0, <1>2 DEF Frame, SessionStep, Idle, Moves
  <2>2. StoreApproval(w) \/ StoreRejection(w)
    BY <1>0, <1>2, <2>1, StepFrom
  <2>3. ~DecisionTaken(t) /\ tasks' = tasks
    BY <2>1, <2>2 DEF StoreApproval, StoreRejection, StoreDecision
  <2>4. tasks[t].state = "APPROVAL_PENDING"
    BY <2>1, <2>3 DEF IInv, DecisionInv, PendingUntilDecided
  <2>5. ASSUME NEW v \in Workers \ {w}, session[v].task = t
        PROVE  session[v].at \in {"approve", "reject"}
    <3>1. session[v].at \in Place \ {"idle"}
      BY <1>0, <2>1, <2>5, SessionFacts
    <3>2. session[v].at \notin Creating
      BY <2>1, <2>5 DEF IInv, DecisionInv, CreatorsAlone
    <3>3. session[v].at \notin Executing \cup {"mark_approved", "mark_rejected"}
      BY <2>3, <2>5
      DEF IInv, DecisionInv, ExecutorsGranted, DeniersDenied, Granted, Denied, DecisionTaken
    <3> QED BY <3>1, <3>2, <3>3 DEF Place, Deciding
  <2> QED BY <1>0, <1>2, <2>3, <2>4, <2>5 DEF Frame, SessionStep, OnlySession
<1> QED BY <1>1, <1>2

LEMMA MarkersInvariant == Spec => []MarkersAlone
<1>1. Init => MarkersAlone
  BY DEF Init, Idle, MarkersAlone
<1>2. IInv /\ MarkersAlone /\ [Next]_vars => MarkersAlone'
  <2> SUFFICES ASSUME IInv, MarkersAlone, [Next]_vars PROVE MarkersAlone'
    OBVIOUS
  <2>1. CASE UNCHANGED vars
    BY <2>1 DEF vars, MarkersAlone
  <2> QED BY <2>1, MarkersKept DEF Next, Step
<1> QED BY <1>1, <1>2, DecisionInvariant, PTL DEF Spec

\* From a state that a page shows a row goes on as its decision has it, and no
\* request brings a task back before its decision.
UnderWay == {"EXECUTING", "RECONCILING", "CONFIRMING", "COMPLETED"}

LEMMA RowsGoOn ==
  ASSUME IInv, MarkersAlone, GrantedGoOn, NEW w \in Workers, Step(w),
         NEW t \in Tasks, Exists(t), tasks'[t].state # tasks[t].state,
         tasks[t].state \notin CreationState \cup {"APPROVAL_PENDING"}
  PROVE  /\ session[w].at \in Executing
         /\ tasks'[t].state \in UnderWay
         /\ tasks[t].state \notin {"REJECTED", "FAILED"}
<1>1. Frame(w) /\ session[w].task = t
  BY NextFrame, OwnStateOnly DEF IInv
<1>2. Stores(session[w].at, tasks[t], tasks'[t].state)
  BY <1>1 DEF Frame, RowsStep
<1>3. session[w].at \notin Creating \cup {"mark_approved", "mark_rejected"}
  BY <1>1 DEF IInv, DecisionInv, CreatorsAlone, MarkersAlone
<1> QED BY <1>1, <1>2, <1>3, FinalStatesStay DEF Stores, Creating, Executing, UnderWay

\* What is proved of the workflow, for the pages to rely on.
Served ==
  /\ IInv /\ MarkersAlone /\ GrantedGoOn
  /\ PausersSeeApproval /\ ExecutorsApproved /\ OnlyTheInsertIsRefused

LEMMA ServedInvariant == Spec => []Served
  BY ExecutorsInvariant, DecisionInvariant, MarkersInvariant, GrantedInvariant,
     DecidedInvariant, RefusalsComeFromTheInsert, PTL
  DEF Served, DecidedInv
-----------------------------------------------------------------------------
(* How far the row of a view is.                                           *)

ViewState == {"APPROVAL_PENDING", "APPROVED", "REJECTED", "COMPLETED", "FAILED"}

\* A row whose view once said `from` may now be in `state`.
Follows(from, state) ==
  \/ state = from
  \/ from = "APPROVAL_PENDING"
  \/ from \in {"APPROVED", "COMPLETED"} /\ state \in UnderWay

ViewFollowed(v) == v.state \in ViewState /\ Follows(v.state, tasks[v.task].state)

ViewsFollowed ==
  /\ \A p \in Pages : shown[p] # NoValue => ViewFollowed(shown[p])
  /\ \A a \in answers : a.view # NoValue => ViewFollowed(a.view)

\* While the write of a task is being confirmed there is a request that does so.
ConfirmersWork ==
  \A t \in Tasks : Exists(t) /\ tasks[t].state \in {"RECONCILING", "CONFIRMING"} =>
    \E w \in Workers : session[w].task = t /\ session[w].at \in Written

\* The view in the answer of a request that succeeds.
LEMMA LastView ==
  ASSUME Served, TypeOK', NEW w \in Workers, Proceed(w),
         session'[w].at = "idle", session[w].at \in Succeeding
  PROVE  /\ ViewBySession(w).task = session[w].task
         /\ ViewBySession(w).state \in ViewState
         /\ At(w, "pause") => ViewBySession(w).state = "APPROVED" /\ tasks' = tasks
         /\ ~At(w, "pause") =>
              tasks'[session[w].task].state = ViewBySession(w).state
         /\ At(w, "mark_rejected") => ViewBySession(w).state = "REJECTED"
         /\ At(w, "complete") => ViewBySession(w).state = "COMPLETED"
<1> DEFINE t == session[w].task
           v == ViewBySession(w)
<1>0. /\ TypeInv /\ Step(w) /\ ~At(w, "idle")
      /\ TaskRow(w) \in Row
  BY InProgress DEF Served, IInv, Step, Succeeding
<1>1. /\ v.task = t
      /\ IF At(w, "pause") THEN v.state = session[w].seen ELSE v.state = tasks'[t].state
  BY <1>0, ViewBySessionType
<1> HIDE DEF v
<1>2. ~DecisionConflict(w) /\ ~ExecutionFails(w)
  BY DEF DecisionConflict, ExecutionFails, Served, OnlyTheInsertIsRefused, Succeeding
<1>3. CASE At(w, "pause")
  <2>1. PauseAfterApproval(w)
    BY <1>0, <1>2, <1>3, ProceedToIdle
    DEF RejectAnalysis, ConcludeCreation, MarkRejected, CompleteAction
  <2> QED BY <1>1, <1>3, <2>1 DEF v, PauseAfterApproval, Served, PausersSeeApproval,
                               ViewState
<1>4. CASE ~At(w, "pause")
  <2>1. RejectAnalysis(w) \/ ConcludeCreation(w) \/ MarkRejected(w) \/ CompleteAction(w)
    BY <1>0, <1>2, <1>4, ProceedToIdle DEF PauseAfterApproval
  <2>2. /\ RejectAnalysis(w) => At(w, "judge") /\ tasks'[t].state = "FAILED"
        /\ ConcludeCreation(w) =>
             At(w, "conclude") /\ tasks'[t].state = Conclusion(TaskRow(w))
        /\ MarkRejected(w) => At(w, "mark_rejected") /\ tasks'[t].state = "REJECTED"
        /\ CompleteAction(w) => At(w, "complete") /\ tasks'[t].state = "COMPLETED"
    BY <1>0, StoredState
    DEF RejectAnalysis, ConcludeCreation, MarkRejected, CompleteAction, Transition
  <2> QED BY <1>1, <1>4, <2>1, <2>2 DEF v, Conclusion, ViewState
<1> QED BY <1>3, <1>4

LEMMA NewViewsFollowed ==
  ASSUME WebTyped, Served, TypeOK', NEW views, NewViews(views)
  PROVE  \A v \in views : v.state \in ViewState /\ Follows(v.state, tasks'[v.task].state)
<1>0. TypeInv /\ TypeOK
  BY DEF Served, IInv, TypeInv
<1>1. ASSUME NEW p \in Pages, shown[p] # NoValue, UNCHANGED vars,
             tasks[shown[p].task].state = "COMPLETED", NEW v, v = ViewOf(shown[p].task)
      PROVE  v.state \in ViewState /\ Follows(v.state, tasks'[v.task].state)
  <2>1. shown[p].task \in Tasks /\ Exists(shown[p].task)
    BY <1>1 DEF WebTyped, WebTypeOK, ViewsExist, View
  <2>2. v.task = shown[p].task /\ v.state = "COMPLETED"
    BY <1>0, <1>1, <2>1, ViewOfType
  <2> QED BY <1>1, <2>2 DEF Follows, ViewState, vars
<1>2. ASSUME NEW w \in Workers, Proceed(w), session'[w].at = "idle",
             session[w].at \in Succeeding, NEW v, v = ViewBySession(w)
      PROVE  v.state \in ViewState /\ Follows(v.state, tasks'[v.task].state)
  <2>1. /\ v.task = session[w].task /\ v.state \in ViewState
        /\ At(w, "pause") => v.state = "APPROVED" /\ tasks' = tasks
        /\ ~At(w, "pause") => tasks'[v.task].state = v.state
    BY <1>0, <1>2, LastView
  <2>2. At(w, "pause") => TaskRow(w).state \in ApprovedStates
    BY DEF Served, ExecutorsApproved, Executing
  <2> QED BY <2>1, <2>2 DEF Follows, ApprovedStates, UnderWay
<1> QED BY <1>1, <1>2 DEF NewViews

LEMMA NextViewsFollowed ==
  WebTyped /\ WebTyped' /\ Served /\ ViewsFollowed /\ [NextWeb]_<<vars, webVars>>
  => ViewsFollowed'
<1> SUFFICES ASSUME WebTyped, WebTyped', Served, ViewsFollowed,
                    [NextWeb]_<<vars, webVars>>
             PROVE  ViewsFollowed'
  OBVIOUS
<1>0. TypeOK'
  BY DEF WebTyped, TypeInv
<1>1. CASE UNCHANGED <<vars, webVars>>
  BY <1>1 DEF ViewsFollowed, ViewFollowed, vars, webVars
<1>2. CASE NextWeb
  <2> DEFINE Fits(v) == v.state \in ViewState /\ Follows(v.state, tasks'[v.task].state)
  <2>1. PICK views :
          /\ \A v \in views : Fits(v)
          /\ \A a \in answers' :
               \/ a \in answers
               \/ \E q \in Pages, run \in BOOLEAN, view \in views \cup {NoValue} :
                    a = [page |-> q, run |-> run, view |-> view]
    BY <1>0, <1>2, WebViews, NewViewsFollowed DEF ViewsStep
  <2>2. \A v \in View : Exists(v.task) /\ ViewFollowed(v) => Fits(v)
    <3> SUFFICES ASSUME NEW v \in View, Exists(v.task), ViewFollowed(v),
                        tasks'[v.task].state # tasks[v.task].state
                 PROVE  Fits(v)
      BY DEF ViewFollowed
    <3>1. v.task \in Tasks
      BY DEF View
    <3>2. PICK w \in Workers : Step(w)
      BY WebStep DEF WebTyped, vars
    <3>3. CASE v.state = "APPROVAL_PENDING"
      BY <3>3 DEF Follows, ViewState
    <3>4. CASE v.state # "APPROVAL_PENDING"
      <4>1. tasks[v.task].state \notin CreationState \cup {"APPROVAL_PENDING"}
        BY <3>4 DEF ViewFollowed, Follows, ViewState, UnderWay, CreationState
      <4> QED BY <3>1, <3>2, <3>4, <4>1, RowsGoOn
              DEF Served, ViewFollowed, Follows, ViewState
    <3> QED BY <3>3, <3>4
  <2>3. \A a \in answers : a.view # NoValue => a.view \in View /\ Fits(a.view)
    BY <2>2 DEF WebTyped, WebTypeOK, ViewsExist, Answer, ViewsFollowed
  <2>4. \A p \in Pages : shown[p] # NoValue => shown[p] \in View /\ Fits(shown[p])
    BY <2>2 DEF WebTyped, WebTypeOK, ViewsExist, ViewsFollowed
  <2>5. \A a \in answers' : a.view # NoValue => Fits(a.view)
    BY <2>1, <2>3
  <2>6. \A p \in Pages : shown'[p] # NoValue => Fits(shown'[p])
    BY <1>2, <2>3, <2>4, WebViews DEF ViewsStep
  <2> QED BY <2>5, <2>6 DEF ViewsFollowed, ViewFollowed
<1> QED BY <1>1, <1>2

\* No page brings about the death of a request.
LEMMA PagesStep ==
  ASSUME WebTypeOK, [NextWeb]_<<vars, webVars>>
  PROVE  UNCHANGED vars
           \/ \E w \in Workers : Arrive(w) \/ Proceed(w) \/ CreationFails(w)
<1>1. ASSUME NEW p \in Pages, NEW w \in Workers, ClickRun(p, w) \/ ClickDecision(p, w)
      PROVE  Arrive(w)
  BY <1>1, ClickSteps
<1> QED BY <1>1
        DEF NextWeb, ClickOnCompleted, Reload, ArriveElsewhere, Serve, ServeCreationError,
            BreakWaiting, Render, BreakAnswered

LEMMA NextConfirmers ==
  WebTyped /\ Served /\ ConfirmersWork /\ [NextWeb]_<<vars, webVars>>
  => ConfirmersWork'
<1> SUFFICES ASSUME WebTyped, Served, ConfirmersWork, [NextWeb]_<<vars, webVars>>,
                    NEW t \in Tasks, tasks'[t] # NoValue,
                    tasks'[t].state \in {"RECONCILING", "CONFIRMING"}
             PROVE  \E w \in Workers : session'[w].task = t /\ session'[w].at \in Written
  BY DEF ConfirmersWork
<1>1. CASE UNCHANGED vars
  BY <1>1 DEF ConfirmersWork, vars
<1>2. ASSUME NEW w \in Workers, Arrive(w) \/ Proceed(w) \/ CreationFails(w)
      PROVE  \E v \in Workers : session'[v].task = t /\ session'[v].at \in Written
  <2>0. TypeInv /\ Step(w) /\ Frame(w)
    BY <1>2, NextFrame DEF Served, IInv, Step
  <2>1. Exists(t)
    BY <2>0 DEF Frame, RowsStep
  <2>2. ASSUME session[w].at \in Written \ {"complete"}
        PROVE  session'[w].at \in Written /\ session'[w].task = session[w].task
    <3>1. Proceed(w)
      BY <1>2, <2>0, <2>2, ArrivalFinds DEF CreationFails, Creating, Written
    <3>2. ~ExecutionFails(w)
      BY <2>2 DEF ExecutionFails, Served, OnlyTheInsertIsRefused, Written
    <3>3. session'[w].at # "idle"
      BY <2>0, <2>2, <3>1, <3>2, ProceedToIdle
      DEF RejectAnalysis, ConcludeCreation, DecisionConflict, MarkRejected,
          PauseAfterApproval, CompleteAction, Written
    <3> QED BY <2>0, <2>2, <3>3 DEF Frame, SessionStep, Idle, Moves, Written
  <2>3. CASE tasks'[t].state # tasks[t].state
    <3>1. /\ session[w].task = t
          /\ Stores(session[w].at, tasks[t], tasks'[t].state)
      BY <2>0, <2>1, <2>3, OwnStateOnly DEF Frame, RowsStep
    <3>2. session[w].at \in Written \ {"complete"}
      BY <3>1 DEF Stores, CreationState, Conclusion, Written
    <3> QED BY <2>2, <3>1, <3>2
  <2>4. CASE tasks'[t].state = tasks[t].state
    <3>1. PICK v \in Workers : session[v].task = t /\ session[v].at \in Written
      BY <2>1, <2>4 DEF ConfirmersWork
    <3>2. CASE v # w
      BY <2>0, <3>1, <3>2 DEF Frame, SessionStep, OnlySession
    <3>3. CASE v = w /\ ~At(w, "complete")
      BY <2>2, <3>1, <3>3
    <3>4. CASE v = w /\ At(w, "complete")
      <4>1. Proceed(w)
        BY <1>2, <2>0, <3>4, ArrivalFinds DEF CreationFails, Creating
      <4>2. ~ExecutionFails(w)
        BY <3>4 DEF ExecutionFails, Served, OnlyTheInsertIsRefused
      <4>3. session'[w].at = "idle"
        BY <2>0, <3>4 DEF Frame, SessionStep, Idle, Moves
      <4>4. CompleteAction(w)
        BY <2>0, <3>4, <4>1, <4>2, <4>3, ProceedToIdle
        DEF RejectAnalysis, ConcludeCreation, DecisionConflict, MarkRejected,
            PauseAfterApproval
      <4>5. tasks'[t].state = "COMPLETED"
        BY <2>0, <3>1, <3>4, <4>4, InProgress, StoredState DEF CompleteAction, Transition
      <4> QED BY <4>5
    <3> QED BY <3>2, <3>3, <3>4
  <2> QED BY <2>3, <2>4
<1> QED BY <1>1, <1>2, PagesStep DEF WebTyped
-----------------------------------------------------------------------------
(* A task that one page has for itself.                                    *)

\* An answer with a view of task t, and one that does not say COMPLETED.
News(a, t) == a.view # NoValue /\ a.view.task = t
OpenNews(a, t) == News(a, t) /\ a.view.state # "COMPLETED"

Told(p, t) == Watches(p, t) \/ \E a \in answers : News(a, t) /\ a.page = p
Knows(p, t) == Told(p, t) \/ \E w \in Workers : sender[w] = p /\ session[w].task = t

OnePage(t) ==
  /\ \A p, q \in Pages : Knows(p, t) /\ Knows(q, t) => p = q
  /\ lost = 0 =>
       \A p \in Pages, w \in Workers : Knows(p, t) /\ session[w].task = t => sender[w] = p
  /\ \A p \in Pages, w \in Workers : Told(p, t) /\ session[w].task = t =>
       session[w].at \notin Creating

\* But for w, the only requests on task t are decisions that come too late.
OnlyLate(w, t) ==
  \A v \in Workers \ {w} : session[v].task = t => session[v].at \in {"approve", "reject"}

\* While such an answer is on its way the row stays as the answer has it.
NewsIsFresh(t) ==
  \A a \in answers : OpenNews(a, t) =>
    /\ tasks[t].state = a.view.state
    /\ \A w \in Workers : session[w].task = t =>
         session[w].at \in {"approve", "reject"} /\ DecisionTaken(t)
    /\ \A p \in Pages : Watches(p, t) => shown[p].state # a.view.state
    /\ \A b \in answers : OpenNews(b, t) => b = a

\* So it does while a request is about to report a pause.
PausersAlone(t) ==
  \A w \in Workers : At(w, "pause") /\ session[w].task = t =>
    /\ tasks[t].state = "APPROVED"
    /\ OnlyLate(w, t)
    /\ \A p \in Pages : Watches(p, t) => shown[p].state # "APPROVED"

\* Why the row of t may be in another state than page p shows.
Explained(p, t) ==
  \/ tasks[t].state \in {shown[p].state, "EXECUTING", "RECONCILING", "CONFIRMING"}
  \/ \E a \in answers : News(a, t) /\ a.page = p /\ a.view.state = tasks[t].state
  \/ /\ tasks[t].state = "APPROVED"
     /\ \E w \in Workers : session[w].task = t /\ session[w].at \in {"pause", "execute"}

Owned(t) ==
  /\ OnePage(t)
  /\ NewsIsFresh(t)
  /\ PausersAlone(t)
  /\ lost = 0 => \A p \in Pages : Watches(p, t) => Explained(p, t)

PageInv == lost \in Nat /\ \A t \in Tasks \ foreign : Owned(t)

\* A step that leaves t aside: a request on it may end, and a page may leave it
\* or be told that it is completed, but nobody goes on with it or hears of it.
\* Unless a connection breaks, who still knows t waits for what it waited for.
Aside(t) ==
  /\ tasks'[t].state = tasks[t].state
  /\ approvals \subseteq approvals'
  /\ \A p \in Pages :
       shown'[p] # NoValue /\ shown'[p].task = t => shown'[p] = shown[p]
  /\ \A a \in answers' : News(a, t) =>
       a \in answers \/ (~OpenNews(a, t) /\ Told(a.page, t))
  /\ \A w \in Workers :
       /\ session'[w].task = t =>
            session'[w] = session[w] /\ sender'[w] \in {sender[w], NoValue}
       /\ session[w].task = t /\ session[w].at \in {"pause", "execute"} =>
            session'[w] = session[w]
  /\ lost' = 0 =>
       /\ lost = 0
       /\ \A w \in Workers, p \in Pages :
            session'[w].task = t /\ sender[w] = p =>
              sender'[w] = p \/ ~Knows(p, t)'
       /\ \A a \in answers : News(a, t) =>
            a \in answers' \/ ~Knows(a.page, t)'

LEMMA AsideKnows ==
  ASSUME NEW t \in Tasks, Aside(t), NEW p \in Pages
  PROVE  /\ Watches(p, t)' => Watches(p, t) /\ shown'[p] = shown[p]
         /\ Told(p, t)' => Told(p, t)
         /\ Knows(p, t)' => Knows(p, t)
<1>1. Watches(p, t)' => Watches(p, t) /\ shown'[p] = shown[p]
  BY DEF Aside, Watches
<1>2. Told(p, t)' => Told(p, t)
  BY <1>1 DEF Aside, Told, News
<1>3. Knows(p, t)' => Knows(p, t)
  BY <1>2, WebAssumption DEF Aside, Knows
<1> QED BY <1>1, <1>2, <1>3

LEMMA AsideKeeps ==
  ASSUME NEW t \in Tasks, Owned(t), Aside(t)
  PROVE  Owned(t)'
<1>1. \A p \in Pages : /\ Watches(p, t)' => Watches(p, t) /\ shown'[p] = shown[p]
                       /\ Told(p, t)' => Told(p, t)
                       /\ Knows(p, t)' => Knows(p, t)
  BY AsideKnows
<1>2. OnePage(t)'
  <2>1. ASSUME lost' = 0, NEW p \in Pages, NEW w \in Workers, Knows(p, t)',
               session'[w].task = t
        PROVE  sender'[w] = p
    <3>1. sender[w] = p
      BY <1>1, <2>1 DEF Owned, OnePage, Aside
    <3> QED BY <2>1, <3>1 DEF Aside
  <2>2. ASSUME NEW p \in Pages, NEW w \in Workers, Told(p, t)', session'[w].task = t
        PROVE  session'[w].at \notin Creating
    BY <1>1, <2>2 DEF Owned, OnePage, Aside
  <2> QED BY <1>1, <2>1, <2>2 DEF Owned, OnePage
<1>3. \A a \in answers' : OpenNews(a, t) => a \in answers
  BY DEF Aside, OpenNews
<1>4. NewsIsFresh(t)'
  BY <1>1, <1>3 DEF Owned, NewsIsFresh, Aside, DecisionTaken, OpenNews, News
<1>5. PausersAlone(t)'
  BY <1>1 DEF Owned, PausersAlone, OnlyLate, Aside
<1>6. ASSUME lost' = 0, NEW p \in Pages, Watches(p, t)'
      PROVE  Explained(p, t)'
  <2>1. Explained(p, t) /\ shown'[p] = shown[p] /\ Knows(p, t)'
    BY <1>1, <1>6 DEF Owned, Aside, Knows, Told
  <2>2. CASE \E a \in answers :
               News(a, t) /\ a.page = p /\ a.view.state = tasks[t].state
    BY <1>6, <2>1, <2>2 DEF Explained, Aside, News
  <2>3. CASE /\ tasks[t].state = "APPROVED"
             /\ \E w \in Workers : /\ session[w].task = t
                                   /\ session[w].at \in {"pause", "execute"}
    BY <2>3 DEF Explained, Aside
  <2> QED BY <2>1, <2>2, <2>3 DEF Explained, Aside
<1> QED BY <1>2, <1>4, <1>5, <1>6 DEF Owned

LEMMA OwnRender ==
  ASSUME WebTypeOK, ViewsFollowed, NEW t \in Tasks, Owned(t),
         NEW r \in answers, News(r, t), Render(r)
  PROVE  Owned(t)'
<1> DEFINE q == r.page
<1>1. /\ q \in Pages /\ r.view # NoValue /\ r.view.task = t
      /\ shown \in [Pages -> View \cup {NoValue}]
      /\ Told(q, t) /\ Knows(q, t)
  BY DEF WebTypeOK, Answer, News, Told, Knows
<1>2. /\ shown' = [shown EXCEPT ![q] = r.view]
      /\ answers' = answers \ {r}
      /\ tasks' = tasks /\ session' = session /\ approvals' = approvals
      /\ sender' = sender /\ lost' = lost
  BY <1>1 DEF Render, vars
<1>3. /\ shown'[q] = r.view
      /\ \A p \in Pages \ {q} : shown'[p] = shown[p]
  BY <1>1, <1>2
<1> HIDE DEF q
<1>4. ASSUME NEW p \in Pages
      PROVE  /\ Watches(p, t)' => Watches(p, t) \/ p = q
             /\ Told(p, t)' => Told(p, t)
             /\ Knows(p, t)' => Knows(p, t)
  <2>1. Watches(p, t)' => Watches(p, t) \/ p = q
    BY <1>3 DEF Watches
  <2>2. Told(p, t)' => Told(p, t)
    BY <1>1, <1>2, <2>1 DEF Told, News
  <2> QED BY <1>2, <2>1, <2>2 DEF Knows
<1>5. OnePage(t)'
  BY <1>2, <1>4 DEF Owned, OnePage
<1>6. ASSUME NEW a \in answers', OpenNews(a, t)
      PROVE  a \in answers /\ a # r /\ r.view.state = "COMPLETED"
  BY <1>1, <1>2, <1>6 DEF Owned, NewsIsFresh, OpenNews, News
<1>7. NewsIsFresh(t)'
  BY <1>2, <1>3, <1>4, <1>6, <1>1
  DEF Owned, NewsIsFresh, OpenNews, News, Watches, DecisionTaken, ViewsFollowed,
      ViewFollowed, ViewState
<1>8. PausersAlone(t)'
  <2> SUFFICES ASSUME NEW w \in Workers, At(w, "pause"), session[w].task = t
               PROVE  \A p \in Pages : Watches(p, t)' => shown'[p].state # "APPROVED"
    BY <1>2 DEF Owned, PausersAlone, OnlyLate
  <2>1. r.view.state = "COMPLETED"
    BY <1>1 DEF Owned, NewsIsFresh, OpenNews, News
  <2> QED BY <1>1, <1>3, <1>4, <2>1 DEF Owned, PausersAlone, Watches
<1>9. ASSUME lost' = 0, NEW p \in Pages, Watches(p, t)'
      PROVE  Explained(p, t)'
  <2>1. Knows(p, t)
    BY <1>4, <1>9 DEF Told, Knows
  <2>2. p = q
    BY <1>1, <2>1 DEF Owned, OnePage
  <2>3. CASE r.view.state = "COMPLETED"
    BY <1>1, <1>2, <1>3, <2>2, <2>3
    DEF Explained, ViewsFollowed, ViewFollowed, Follows, UnderWay
  <2>4. CASE r.view.state # "COMPLETED"
    BY <1>2, <1>3, <2>2, <2>4 DEF Explained, Owned, NewsIsFresh, OpenNews
  <2> QED BY <2>3, <2>4
<1> QED BY <1>5, <1>7, <1>8, <1>9 DEF Owned

\* A decision that a page sends.
LEMMA OwnClick ==
  ASSUME WebTyped, NEW p \in Pages, NEW w \in Workers, ClickDecision(p, w),
         NEW t \in Tasks, Watches(p, t), Owned(t)
  PROVE  Owned(t)'
<1>0. /\ TypeInv
      /\ sender \in [Workers -> Pages \cup {NoValue}]
      /\ session \in [Workers -> Session]
      /\ At(w, "idle") /\ session[w].task # t
  BY SessionFacts
  DEF WebTyped, WebTypeOK, TypeInv, SessionsOK, ClickDecision, Approve, Reject, Resume,
      ReadForDecision
<1>1. PICK place \in {"approve", "reject", "resume"} :
        /\ session'[w].at = place /\ session'[w].task = t
        /\ tasks[t].state = IF place = "resume" THEN "APPROVED" ELSE "APPROVAL_PENDING"
        /\ shown[p].state = tasks[t].state
  BY <1>0
  DEF ClickDecision, Approve, Reject, Resume, ReadForDecision, MayDecide, Begin,
      OffersDecision, OffersResume, Shows, Watches
<1>2. /\ \A v \in Workers \ {w} : session'[v] = session[v] /\ sender'[v] = sender[v]
      /\ sender'[w] = p
      /\ tasks' = tasks /\ approvals' = approvals
      /\ shown' = shown /\ answers' = answers /\ lost' = lost
  BY <1>0
  DEF ClickDecision, Approve, Reject, Resume, ReadForDecision, Begin
<1>3. ASSUME NEW q \in Pages
      PROVE  /\ Watches(q, t)' = Watches(q, t)
             /\ Told(q, t)' = Told(q, t)
             /\ Knows(q, t)' => q = p
  <2>1. Watches(q, t)' = Watches(q, t) /\ Told(q, t)' = Told(q, t)
    BY <1>2 DEF Watches, Told
  <2>2. Knows(p, t)
    BY DEF Knows, Told
  <2>3. Knows(q, t)' => Knows(q, t) \/ q = p
    BY <1>2, <2>1 DEF Knows
  <2> QED BY <2>1, <2>2, <2>3 DEF Owned, OnePage
<1>4. OnePage(t)'
  <2>1. ASSUME lost' = 0, NEW v \in Workers, session'[v].task = t
        PROVE  sender'[v] = p
    BY <1>2, <2>1 DEF Owned, OnePage, Knows, Told
  <2>2. ASSUME NEW q \in Pages, Told(q, t)', NEW v \in Workers, session'[v].task = t
        PROVE  session'[v].at \notin Creating
    BY <1>1, <1>2, <1>3, <2>2 DEF Owned, OnePage, Creating
  <2> QED BY <1>3, <2>1, <2>2 DEF OnePage
<1>5. \A a \in answers : ~OpenNews(a, t)
  BY <1>1 DEF Owned, NewsIsFresh
<1>6. \A v \in Workers : ~(At(v, "pause") /\ session[v].task = t)
  BY <1>1 DEF Owned, PausersAlone
<1>7. NewsIsFresh(t)' /\ PausersAlone(t)'
  BY <1>1, <1>2, <1>5, <1>6 DEF NewsIsFresh, PausersAlone
<1>8. ASSUME lost' = 0, NEW q \in Pages, Watches(q, t)'
      PROVE  Explained(q, t)'
  <2>1. Explained(q, t)
    BY <1>2, <1>3, <1>8 DEF Owned
  <2>2. \A v \in Workers : session[v].task = t => session'[v] = session[v]
    BY <1>0, <1>2
  <2> QED BY <1>2, <2>1, <2>2 DEF Explained
<1> QED BY <1>4, <1>7, <1>8 DEF Owned

\* A task that no page has seen and that at most one page waits for.
LEMMA OwnUnseen ==
  ASSUME NEW t \in Tasks,
         \A p \in Pages : ~Told(p, t)',
         \A p, q \in Pages : Knows(p, t)' /\ Knows(q, t)' => p = q,
         \A a \in answers' : News(a, t) => a.page \in Pages,
         lost' = 0 => \A p \in Pages, w \in Workers :
                        Knows(p, t)' /\ session'[w].task = t => sender'[w] = p,
         \A w \in Workers : session'[w].task = t => session'[w].at # "pause"
  PROVE  Owned(t)'
<1>1. \A p \in Pages : ~Watches(p, t)'
  BY DEF Told
<1>2. \A a \in answers' : ~News(a, t)
  BY DEF Told
<1> QED BY <1>1, <1>2
        DEF Owned, OnePage, NewsIsFresh, OpenNews, PausersAlone

\* The run of a new task.
LEMMA OwnRun ==
  ASSUME WebTyped, NEW p \in Pages, NEW w \in Workers, ClickRun(p, w),
         NEW t \in Tasks, session'[w].task = t
  PROVE  Owned(t)'
<1>0. /\ TypeInv /\ WebTypeOK /\ ViewsExist
      /\ sender \in [Workers -> Pages \cup {NoValue}]
      /\ session \in [Workers -> Session]
  BY DEF WebTyped, WebTypeOK, TypeInv, SessionsOK
<1>1. /\ ~Exists(t)
      /\ session'[w].at = "contract"
      /\ \A v \in Workers \ {w} : session'[v] = session[v] /\ sender'[v] = sender[v]
      /\ sender'[w] = p
      /\ shown' = shown /\ answers' = answers
  BY <1>0 DEF ClickRun, CreateTask, Begin
<1>2. \A v \in Workers : session[v].task # t
  BY <1>0, <1>1, SessionFacts
<1>3. \A q \in Pages : ~Told(q, t)'
  BY <1>0, <1>1 DEF Told, Watches, News, ViewsExist
<1>4. \A a \in answers' : News(a, t) => a.page \in Pages
  BY <1>0, <1>1 DEF WebTypeOK, Answer
<1>5. \A q \in Pages : Knows(q, t)' => q = p
  BY <1>1, <1>2, <1>3 DEF Knows
<1> QED BY <1>1, <1>2, <1>3, <1>4, <1>5, OwnUnseen

\* A request on t that goes on.
LEMMA OwnGoesOn ==
  ASSUME WebTyped, Served, ViewsFollowed, NEW w \in Workers, Serve(w),
         session'[w].at # "idle", NEW t \in Tasks, session[w].task = t, Owned(t)
  PROVE  Owned(t)'
<1>0. /\ IInv /\ TypeInv /\ Proceed(w) /\ Step(w) /\ Frame(w) /\ ~At(w, "idle")
      /\ Exists(t)
  BY IdleWaits, NextFrame, InProgress DEF Served, IInv, Serve, Step
<1>1. /\ Moves(session[w].at, session'[w].at) /\ session'[w].task = t
      /\ \A v \in Workers \ {w} : session'[v] = session[v]
      /\ shown' = shown /\ answers' = answers /\ sender' = sender /\ lost' = lost
      /\ approvals \subseteq approvals'
  BY <1>0, ApprovalsStay DEF Frame, SessionStep, OnlySession, Idle, Serve
<1>2. /\ \A v \in Workers : session'[v].task = session[v].task
      /\ \A p \in Pages : /\ Watches(p, t)' = Watches(p, t)
                          /\ Told(p, t)' = Told(p, t)
                          /\ Knows(p, t)' = Knows(p, t)
  BY <1>1 DEF Watches, Told, Knows
<1>3. session[w].at \in {"approve", "reject"} => ~DecisionTaken(t)
  BY <1>0, StepFrom DEF StoreApproval, StoreRejection, StoreDecision
<1>4. OnePage(t)'
  <2>1. session'[w].at \in Creating => session[w].at \in Creating
    BY <1>1 DEF Moves, Creating
  <2> QED BY <1>1, <1>2, <2>1 DEF Owned, OnePage
<1>5. \A a \in answers : ~OpenNews(a, t)
  BY <1>3 DEF Owned, NewsIsFresh
<1>6. NewsIsFresh(t)'
  BY <1>1, <1>5 DEF NewsIsFresh
<1>7. PausersAlone(t)'
  <2> SUFFICES ASSUME NEW v \in Workers, session'[v].at = "pause", session'[v].task = t
               PROVE  /\ tasks'[t].state = "APPROVED"
                      /\ \A u \in Workers \ {v} : session'[u].task = t =>
                           session'[u].at \in {"approve", "reject"}
                      /\ \A p \in Pages : Watches(p, t) => shown[p].state # "APPROVED"
    BY <1>1, <1>2 DEF PausersAlone, OnlyLate
  <2>1. CASE v = w
    <3>1. At(w, "mark_approved") /\ MarkApproved(w)
      BY <1>0, <1>1, <2>1, StepFrom DEF Moves
    <3>2. tasks'[t].state = "APPROVED"
      BY <1>0, <3>1, InProgress, StoredState DEF MarkApproved, Transition
    <3>3. /\ tasks[t].state = "APPROVAL_PENDING"
          /\ \A u \in Workers \ {w} : session[u].task = t =>
               session[u].at \in {"approve", "reject"}
      BY <3>1 DEF Served, MarkersAlone
    <3>4. \A p \in Pages : Watches(p, t) => shown[p].state # "APPROVED"
      BY <3>3 DEF ViewsFollowed, ViewFollowed, Follows, UnderWay, Watches
    <3> QED BY <1>1, <2>1, <3>2, <3>3, <3>4
  <2>2. CASE v # w
    <3>1. At(v, "pause") /\ session[v].task = t
      BY <1>1, <2>2
    <3>2. session[w].at \in {"approve", "reject"}
      BY <2>2, <3>1 DEF Owned, PausersAlone, OnlyLate
    <3>3. DecisionTaken(t)
      BY <3>1 DEF Served, IInv, DecisionInv, ExecutorsGranted, Executing, Granted,
                  DecisionTaken
    <3> QED BY <1>3, <3>2, <3>3
  <2> QED BY <2>1, <2>2
<1>8. ASSUME lost' = 0, NEW p \in Pages, Watches(p, t)'
      PROVE  Explained(p, t)'
  <2>1. Explained(p, t) /\ session[w].at \notin Creating
    BY <1>1, <1>2, <1>8 DEF Owned, OnePage, Told
  <2>2. CASE tasks'[t].state = tasks[t].state
    <3>1. CASE \E v \in Workers : /\ tasks[t].state = "APPROVED" /\ session[v].task = t
                                  /\ session[v].at \in {"pause", "execute"}
      <4>1. PICK v \in Workers : /\ tasks[t].state = "APPROVED" /\ session[v].task = t
                                 /\ session[v].at \in {"pause", "execute"}
        BY <3>1
      <4>2. CASE v # w
        BY <1>1, <2>2, <4>1, <4>2 DEF Explained
      <4>3. CASE v = w
        <5>1. At(w, "execute")
          BY <1>1, <4>1, <4>3 DEF Moves
        <5>2. BeginExecution(w)
          BY <1>0, <5>1, StepFrom, <1>1
        <5>3. tasks'[t].state = "EXECUTING"
          BY <1>0, <5>2, InProgress, StoredState DEF BeginExecution, Transition
        <5> QED BY <5>3 DEF Explained
      <4> QED BY <4>2, <4>3
    <3>2. CASE ~\E v \in Workers : /\ tasks[t].state = "APPROVED" /\ session[v].task = t
                                   /\ session[v].at \in {"pause", "execute"}
      BY <1>1, <2>1, <2>2, <3>2 DEF Explained
    <3> QED BY <3>1, <3>2
  <2>3. CASE tasks'[t].state # tasks[t].state
    <3>1. Stores(session[w].at, tasks[t], tasks'[t].state)
      BY <1>0, <2>3 DEF Frame, RowsStep
    <3>2. \/ tasks'[t].state \in {"EXECUTING", "RECONCILING", "CONFIRMING"}
          \/ At(w, "mark_approved") /\ tasks'[t].state = "APPROVED"
      BY <1>1, <2>1, <3>1 DEF Stores, Moves, Creating
    <3>3. At(w, "mark_approved") => session'[w].at \in {"pause", "execute"}
      BY <1>1 DEF Moves
    <3> QED BY <1>1, <3>2, <3>3 DEF Explained
  <2> QED BY <2>2, <2>3
<1> QED BY <1>4, <1>6, <1>7, <1>8 DEF Owned

\* A creation that ends, with a view or an error.
LEMMA OwnCreated ==
  ASSUME WebTyped, Served, TypeOK', NEW w \in Workers,
         (Serve(w) /\ session'[w].at = "idle") \/ ServeCreationError(w),
         session[w].at \in Creating, NEW t \in Tasks, session[w].task = t, Owned(t)
  PROVE  Owned(t)'
<1>0. /\ IInv /\ TypeInv /\ WebTypeOK /\ Step(w) /\ Frame(w) /\ ~At(w, "idle")
      /\ sender \in [Workers -> Pages \cup {NoValue}]
  BY NextFrame
  DEF WebTyped, WebTypeOK, Served, IInv, Serve, ServeCreationError, Step, Creating
<1>1. \A v \in Workers : session'[v].task # t
  <2>1. \A v \in Workers \ {w} : session[v].task # t
    BY DEF Served, IInv, DecisionInv, CreatorsAlone
  <2>2. session'[w].at = "idle"
    BY <1>0, NewSession DEF ServeCreationError, CreationFails, Idle
  <2>3. session'[w] = Idle
    BY <1>0, <2>2 DEF Frame, SessionStep, Moves
  <2> QED BY <1>0, <2>1, <2>3, SessionFacts DEF Frame, SessionStep, OnlySession, Idle
<1>2. shown' = shown
  BY DEF Serve, ServeCreationError
<1>3. \A p \in Pages : ~Told(p, t)
  BY DEF Owned, OnePage
<1>4. \A p \in Pages : ~Watches(p, t)'
  BY <1>2, <1>3 DEF Told, Watches
<1>5. \A a \in answers : ~News(a, t)
  BY <1>0, <1>3 DEF Told, WebTypeOK, Answer
<1>6. PICK view : /\ Reply(w, view)
                  /\ view # NoValue => Proceed(w) /\ session'[w].at = "idle"
                                       /\ session[w].at \in Succeeding
                                       /\ view = ViewBySession(w)
  BY DEF Serve, ServeCreationError
<1>7. view # NoValue => view.state = tasks'[t].state
  BY <1>6, LastView DEF Creating
<1>8. \A a \in answers' : News(a, t) =>
        /\ a = [page |-> sender[w], run |-> InCreation(w), view |-> view]
        /\ a.page = sender[w] /\ a.view = view /\ view # NoValue
  BY <1>5, <1>6 DEF Reply, News
<1>9. OnePage(t)'
  <2>1. \A p \in Pages : Knows(p, t)' => p = sender[w]
    BY <1>1, <1>4, <1>8 DEF Knows, Told
  <2> QED BY <1>1, <2>1 DEF OnePage
<1>10. NewsIsFresh(t)'
  BY <1>1, <1>4, <1>7, <1>8 DEF NewsIsFresh, OpenNews
<1> QED BY <1>1, <1>4, <1>9, <1>10 DEF Owned, PausersAlone

\* A decision on t that is answered with a view.
LEMMA OwnAnswered ==
  ASSUME WebTyped, Served, TypeOK', ViewsFollowed, NEW w \in Workers, Serve(w),
         session'[w].at = "idle", session[w].at \in Succeeding \ Creating,
         NEW t \in Tasks, session[w].task = t, Owned(t)
  PROVE  Owned(t)'
<1> DEFINE q == sender[w]
           view == ViewBySession(w)
           r == [page |-> q, run |-> InCreation(w), view |-> view]
<1>0. /\ IInv /\ TypeInv /\ Proceed(w) /\ Step(w) /\ Frame(w) /\ ~At(w, "idle")
      /\ session[w].at \in {"mark_rejected", "pause", "complete"}
      /\ q \in Pages \cup {NoValue} /\ NoValue \notin Pages
      /\ sender \in [Workers -> Pages \cup {NoValue}]
  BY NextFrame, WebAssumption
  DEF WebTyped, WebTypeOK, Served, IInv, Serve, Step, Succeeding, Creating
<1>1. /\ session'[w].task # t
      /\ \A v \in Workers \ {w} : session'[v] = session[v] /\ sender'[v] = sender[v]
      /\ sender'[w] = NoValue
      /\ shown' = shown /\ lost' = lost /\ approvals \subseteq approvals'
      /\ answers' = IF q = NoValue THEN answers ELSE answers \cup {r}
  <2>1. session'[w] = Idle
    BY <1>0 DEF Serve, Frame, SessionStep, Moves
  <2>2. session'[w].task # t /\ \A v \in Workers \ {w} : session'[v] = session[v]
    BY <1>0, <2>1, SessionFacts DEF Frame, SessionStep, OnlySession, Idle
  <2>3. /\ \A v \in Workers \ {w} : sender'[v] = sender[v]
        /\ sender'[w] = NoValue
        /\ shown' = shown /\ lost' = lost
    BY <1>0 DEF Serve
  <2>4. answers' = IF q = NoValue THEN answers ELSE answers \cup {r}
    BY <1>0 DEF Serve, Reply
  <2> QED BY <1>0, <2>2, <2>3, <2>4, ApprovalsStay
<1>2. /\ view.task = t
      /\ tasks'[t].state = view.state
      /\ At(w, "pause") => view.state = "APPROVED"
      /\ At(w, "mark_rejected") => view.state = "REJECTED"
      /\ At(w, "complete") => view.state = "COMPLETED"
      /\ view # NoValue
  <2>1. At(w, "pause") => tasks[t].state = "APPROVED"
    BY DEF Owned, PausersAlone
  <2>2. view \in View
    BY <1>0, ViewBySessionType
  <2> QED BY <1>0, <2>1, <2>2, LastView, WebAssumption DEF Served
<1> HIDE DEF view
<1>3. /\ r.page = q /\ r.view = view /\ News(r, t)
      /\ q # NoValue => r \in answers'
      /\ answers \subseteq answers'
      /\ \A a \in answers' : a \in answers \/ (a = r /\ q # NoValue)
  BY <1>1, <1>2 DEF News
<1>4. Knows(q, t)
  BY DEF Knows
<1> HIDE DEF q, r
<1>5. \A a \in answers : ~OpenNews(a, t)
  BY <1>0 DEF Owned, NewsIsFresh
<1>6. ~At(w, "complete") => /\ OnlyLate(w, t)
                            /\ DecisionTaken(t)
                            /\ \A p \in Pages : Watches(p, t) => shown[p].state # view.state
  <2>1. CASE At(w, "pause")
    BY <1>2, <2>1
    DEF Owned, PausersAlone, Served, IInv, DecisionInv, ExecutorsGranted, Executing,
        Granted, DecisionTaken
  <2>2. CASE At(w, "mark_rejected")
    <3>1. tasks[t].state = "APPROVAL_PENDING" /\ OnlyLate(w, t)
      BY <2>2 DEF Served, MarkersAlone, OnlyLate
    <3>2. \A p \in Pages : Watches(p, t) => shown[p].state # "REJECTED"
      BY <3>1 DEF ViewsFollowed, ViewFollowed, Follows, Watches
    <3> QED BY <1>2, <2>2, <3>1, <3>2
            DEF Served, IInv, DecisionInv, DeniersDenied, Denied, DecisionTaken
  <2> QED BY <1>0, <2>1, <2>2
<1>7. \A p \in Pages : /\ Watches(p, t)' = Watches(p, t)
                       /\ Told(p, t)' => Told(p, t) \/ p = q
                       /\ Knows(p, t)' => Knows(p, t)
  <2>1. \A p \in Pages : Told(p, t)' => Told(p, t) \/ p = q
    BY <1>1, <1>3 DEF Told, Watches
  <2> QED BY <1>0, <1>1, <1>4, <2>1 DEF Knows, Watches
<1>8. OnePage(t)'
  <2>1. ASSUME lost' = 0, NEW p \in Pages, NEW v \in Workers, Knows(p, t)',
               session'[v].task = t
        PROVE  sender'[v] = p
    BY <1>1, <1>7, <2>1 DEF Owned, OnePage
  <2>2. ASSUME NEW v \in Workers, session'[v].task = t
        PROVE  session'[v].at \notin Creating
    <3>1. v # w /\ session'[v] = session[v]
      BY <1>1, <2>2
    <3> QED BY <2>2, <3>1 DEF Served, IInv, DecisionInv, CreatorsAlone
  <2> QED BY <1>7, <2>1, <2>2 DEF Owned, OnePage
<1>9. NewsIsFresh(t)'
  <2> SUFFICES ASSUME NEW a \in answers', OpenNews(a, t)
               PROVE  /\ tasks'[t].state = a.view.state
                      /\ \A v \in Workers : session'[v].task = t =>
                           /\ session'[v].at \in {"approve", "reject"}
                           /\ DecisionTaken(t)'
                      /\ \A p \in Pages : Watches(p, t) => shown[p].state # a.view.state
                      /\ \A b \in answers' : OpenNews(b, t) => b = a
    BY <1>1, <1>7 DEF NewsIsFresh
  <2>1. a = r /\ ~At(w, "complete")
    BY <1>2, <1>3, <1>5 DEF OpenNews
  <2>2. DecisionTaken(t)'
    BY <1>1, <1>6, <2>1 DEF DecisionTaken
  <2> QED BY <1>1, <1>2, <1>3, <1>5, <1>6, <2>1, <2>2 DEF OnlyLate
<1>10. PausersAlone(t)'
  <2> SUFFICES ASSUME NEW v \in Workers, session'[v].at = "pause", session'[v].task = t
               PROVE  FALSE
    BY DEF PausersAlone
  <2>1. v # w /\ At(v, "pause") /\ session[v].task = t
    BY <1>1
  <2> QED BY <1>0, <1>6, <2>1 DEF Owned, PausersAlone, OnlyLate
<1>11. ASSUME lost' = 0, NEW p \in Pages, Watches(p, t)'
       PROVE  Explained(p, t)'
  <2>1. Knows(p, t)
    BY <1>7, <1>11 DEF Knows, Told
  <2>2. q = p
    BY <1>1, <1>11, <2>1 DEF Owned, OnePage, q
  <2>3. r \in answers' /\ r.page = p /\ r.view.state = tasks'[t].state
    BY <1>0, <1>2, <1>3, <2>2
  <2> QED BY <1>3, <2>3 DEF Explained
<1> QED BY <1>8, <1>9, <1>10, <1>11 DEF Owned

\* The steps of other requests, and the ones that bring t no news.
LEMMA OtherServed ==
  ASSUME WebTyped, Served, TypeOK', NEW w \in Workers, Serve(w) \/ ServeCreationError(w),
         NEW t \in Tasks, Owned(t),
         \/ session[w].task # t
         \/ session'[w].at = "idle" /\ session[w].at \notin Succeeding \cup Creating
  PROVE  Aside(t)
<1>0. /\ IInv /\ TypeInv /\ Step(w) /\ Frame(w) /\ ~At(w, "idle")
      /\ sender \in [Workers -> Pages \cup {NoValue}]
  BY NextFrame, IdleWaits
  DEF WebTyped, WebTypeOK, Served, IInv, Serve, ServeCreationError, Step
<1>1. /\ \A v \in Workers \ {w} : session'[v] = session[v]
      /\ session'[w].task # t
      /\ session[w].task = t => session[w].at \notin {"pause", "execute"}
      /\ tasks'[t].state = tasks[t].state
  <2>1. CASE session[w].task # t
    <3>1. tasks'[t] = tasks[t]
      BY <1>0, <2>1 DEF Frame, RowsStep
    <3> QED BY <1>0, <2>1, <3>1, SessionFacts DEF Frame, SessionStep, OnlySession, Idle
  <2>2. CASE session[w].task = t
    <3>1. Proceed(w)
      BY <2>2 DEF Serve, ServeCreationError, CreationFails
    <3>2. DecisionConflict(w) \/ ExecutionFails(w)
      BY <1>0, <2>2, <3>1, ProceedToIdle
      DEF RejectAnalysis, ConcludeCreation, MarkRejected, PauseAfterApproval,
          CompleteAction, Succeeding
    <3>3. session[w].at # "execute"
      BY <3>2 DEF DecisionConflict, ExecutionFails, Served, OnlyTheInsertIsRefused
    <3>4. tasks' = tasks /\ session[w].at # "pause"
      BY <2>2, <3>2 DEF DecisionConflict, ExecutionFails, Succeeding
    <3>5. session'[w] = Idle
      BY <1>0, <2>2 DEF Frame, SessionStep, Moves
    <3> QED BY <1>0, <3>3, <3>4, <3>5, SessionFacts
            DEF Frame, SessionStep, OnlySession, Idle
  <2> QED BY <2>1, <2>2
<1>2. /\ \A v \in Workers \ {w} : sender'[v] = sender[v]
      /\ shown' = shown /\ lost' = lost
      /\ answers \subseteq answers'
  BY <1>0 DEF Serve, ServeCreationError, Reply
<1>3. \A a \in answers' : News(a, t) => a \in answers
  <2>1. ASSUME Serve(w), session'[w].at = "idle", session[w].at \in Succeeding
        PROVE  ViewBySession(w).task # t
    BY <2>1, LastView DEF Serve, Served
  <2> QED BY <2>1 DEF Serve, ServeCreationError, Reply, News
<1> QED BY <1>0, <1>1, <1>2, <1>3, ApprovalsStay DEF Aside

\* The steps of the pages and of other clients.
LEMMA OtherStep ==
  ASSUME WebTyped, lost \in Nat, NEW t \in Tasks \ foreign', Owned(t),
         \/ \E p \in Pages, w \in Workers :
              \/ ClickRun(p, w) /\ session'[w].task # t
              \/ ClickDecision(p, w) /\ ~Watches(p, t)
         \/ \E p \in Pages : ClickOnCompleted(p) \/ Reload(p)
         \/ \E w \in Workers : ArriveElsewhere(w) \/ BreakWaiting(w)
         \/ \E a \in answers : BreakAnswered(a) \/ (Render(a) /\ ~News(a, t))
  PROVE  Aside(t)
<1>0. /\ TypeInv /\ WebTypeOK
      /\ sender \in [Workers -> Pages \cup {NoValue}]
      /\ shown \in [Pages -> View \cup {NoValue}]
      /\ answers \subseteq Answer
      /\ NoValue \notin Tasks /\ NoValue \notin Pages
  BY WorkflowAssumption, WebAssumption DEF WebTyped, WebTypeOK
<1>1. ASSUME NEW w \in Workers, Arrive(w), session'[w].task # t, shown' = shown,
             answers' = answers, lost' = lost,
             \A v \in Workers \ {w} : sender'[v] = sender[v]
      PROVE  Aside(t)
  <2>1. Step(w) /\ Frame(w) /\ At(w, "idle") /\ session[w].task # t
    <3>1. Step(w) /\ At(w, "idle")
      BY <1>1 DEF Step, Arrive, CreateTask, Approve, Reject, Resume, ReadForDecision
    <3> QED BY <1>0, <3>1, NextFrame, SessionFacts
  <2>2. tasks'[t] = tasks[t]
    <3>1. CASE tasks[t] # NoValue
      BY <2>1, <3>1 DEF Frame, RowsStep
    <3>2. CASE tasks[t] = NoValue
      BY <1>0, <1>1, <3>2
      DEF Arrive, CreateTask, Approve, Reject, Resume, ReadForDecision, Begin, TypeInv,
          TypeOK, SessionsOK
    <3> QED BY <3>1, <3>2
  <2> QED BY <1>0, <1>1, <2>1, <2>2, ApprovalsStay
          DEF Aside, Frame, SessionStep, OnlySession
<1>2. ASSUME NEW p \in Pages, NEW w \in Workers, ClickRun(p, w), session'[w].task # t
      PROVE  Aside(t)
  BY <1>0, <1>1, <1>2, ClickSteps DEF ClickRun
<1>3. ASSUME NEW p \in Pages, NEW w \in Workers, ClickDecision(p, w), ~Watches(p, t)
      PROVE  Aside(t)
  <2>1. session'[w].task # t
    BY <1>0, <1>3
    DEF ClickDecision, Approve, Reject, Resume, ReadForDecision, Begin, OffersDecision,
        OffersResume, Shows, Watches, TypeInv, SessionsOK
  <2> QED BY <1>0, <1>1, <1>3, <2>1, ClickSteps DEF ClickDecision
<1>4. ASSUME NEW p \in Pages, ClickOnCompleted(p)
      PROVE  Aside(t)
  <2> DEFINE c == [page |-> p, run |-> FALSE, view |-> ViewOf(shown[p].task)]
  <2>1. /\ shown[p] # NoValue
        /\ tasks[shown[p].task].state = "COMPLETED"
        /\ answers' = answers \cup {c}
        /\ UNCHANGED <<vars, shown, sender, lost>>
    BY <1>4 DEF ClickOnCompleted, AnswersCompleted, OffersDecision, OffersResume, Shows
  <2>2. /\ c.page = p /\ c.view.task = shown[p].task
        /\ c.view.state = "COMPLETED"
    BY <2>1 DEF ViewOf
  <2>3. News(c, t) => ~OpenNews(c, t) /\ Told(c.page, t)
    BY <2>1, <2>2 DEF News, OpenNews, Told, Watches
  <2> HIDE DEF c
  <2> QED BY <2>1, <2>3 DEF Aside, vars
<1>5. ASSUME NEW p \in Pages, Reload(p)
      PROVE  Aside(t)
  <2>1. /\ UNCHANGED vars /\ lost' = lost
        /\ shown' = [shown EXCEPT ![p] = NoValue]
        /\ sender' = [w \in Workers |-> IF sender[w] = p THEN NoValue ELSE sender[w]]
        /\ answers' = {a \in answers : a.page # p}
    BY <1>5 DEF Reload
  <2>2. ~Knows(p, t)'
    BY <1>0, <2>1 DEF Knows, Told, Watches
  <2>3. \A q \in Pages : shown'[q] # NoValue => shown'[q] = shown[q]
    BY <1>0, <2>1
  <2> QED BY <1>0, <2>1, <2>2, <2>3 DEF Aside, vars
<1>6. ASSUME NEW w \in Workers, ArriveElsewhere(w)
      PROVE  Aside(t)
  BY <1>1, <1>6 DEF ArriveElsewhere
<1>7. ASSUME NEW w \in Workers, BreakWaiting(w)
      PROVE  Aside(t)
  BY <1>0, <1>7 DEF BreakWaiting, Aside, vars
<1>8. ASSUME NEW a \in answers, BreakAnswered(a)
      PROVE  Aside(t)
  BY <1>0, <1>8 DEF BreakAnswered, Aside, vars
<1>9. ASSUME NEW a \in answers, Render(a), ~News(a, t)
      PROVE  Aside(t)
  <2>1. /\ UNCHANGED <<vars, sender, lost>>
        /\ answers' = answers \ {a}
        /\ shown' = IF a.view = NoValue THEN shown
                    ELSE [shown EXCEPT ![a.page] = a.view]
    BY <1>9 DEF Render
  <2>2. \A p \in Pages :
          shown'[p] # NoValue /\ shown'[p].task = t => shown'[p] = shown[p]
    BY <1>0, <1>9, <2>1 DEF News
  <2> QED BY <1>9, <2>1, <2>2 DEF Aside, vars
<1> QED BY <1>2, <1>3, <1>4, <1>5, <1>6, <1>7, <1>8, <1>9

LEMMA NextOwned ==
  /\ WebTyped /\ WebTyped' /\ Served /\ ViewsFollowed /\ PageInv
  /\ [NextWeb]_<<vars, webVars>>
  => PageInv'
<1> SUFFICES ASSUME WebTyped, WebTyped', Served, ViewsFollowed, PageInv,
                    [NextWeb]_<<vars, webVars>>
             PROVE  PageInv'
  OBVIOUS
<1>0. WebTypeOK /\ TypeOK' /\ lost \in Nat
  BY DEF WebTyped, TypeInv, PageInv
<1>1. lost' \in Nat /\ foreign \subseteq foreign'
  BY <1>0
  DEF NextWeb, ClickRun, ClickDecision, ClickOnCompleted, Reload, ArriveElsewhere, Serve,
      ServeCreationError, BreakWaiting, Render, BreakAnswered, webVars
<1>2. ASSUME NEW t \in Tasks \ foreign'
      PROVE  Owned(t)'
  <2>1. Owned(t)
    BY <1>1 DEF PageInv
  <2>2. CASE UNCHANGED <<vars, webVars>>
    <3>1. Aside(t)
      BY <2>2 DEF Aside, vars, webVars
    <3> QED BY <2>1, <3>1, AsideKeeps
  <2>3. ASSUME NEW p \in Pages, NEW w \in Workers, ClickRun(p, w)
        PROVE  Owned(t)'
    BY <1>0, <2>1, <2>3, OwnRun, OtherStep, AsideKeeps
  <2>4. ASSUME NEW p \in Pages, NEW w \in Workers, ClickDecision(p, w)
        PROVE  Owned(t)'
    BY <1>0, <2>1, <2>4, OwnClick, OtherStep, AsideKeeps
  <2>5. ASSUME NEW w \in Workers, Serve(w) \/ ServeCreationError(w)
        PROVE  Owned(t)'
    <3>1. CASE session[w].task = t /\ Serve(w) /\ session'[w].at # "idle"
      BY <2>1, <3>1, OwnGoesOn
    <3>2. CASE /\ session[w].task = t /\ session[w].at \in Creating
               /\ (Serve(w) /\ session'[w].at = "idle") \/ ServeCreationError(w)
      BY <1>0, <2>1, <3>2, OwnCreated
    <3>3. CASE /\ session[w].task = t /\ session[w].at \in Succeeding \ Creating
               /\ Serve(w) /\ session'[w].at = "idle"
      BY <1>0, <2>1, <3>3, OwnAnswered
    <3>4. CASE \/ session[w].task # t
               \/ session'[w].at = "idle" /\ session[w].at \notin Succeeding \cup Creating
      BY <1>0, <2>1, <2>5, <3>4, OtherServed, AsideKeeps
    <3>5. ServeCreationError(w) => session[w].at \in Creating
      BY DEF ServeCreationError, CreationFails
    <3> QED BY <2>5, <3>1, <3>2, <3>3, <3>4, <3>5
  <2>6. ASSUME NEW a \in answers, Render(a)
        PROVE  Owned(t)'
    BY <1>0, <2>1, <2>6, OwnRender, OtherStep, AsideKeeps
  <2>7. ASSUME \/ \E p \in Pages : ClickOnCompleted(p) \/ Reload(p)
               \/ \E w \in Workers : ArriveElsewhere(w) \/ BreakWaiting(w)
               \/ \E a \in answers : BreakAnswered(a)
        PROVE  Owned(t)'
    BY <1>0, <2>1, <2>7, OtherStep, AsideKeeps
  <2> QED BY <2>2, <2>3, <2>4, <2>5, <2>6, <2>7 DEF NextWeb
<1> QED BY <1>1, <1>2 DEF PageInv

LEMMA InitPages == InitWeb => ViewsFollowed /\ ConfirmersWork /\ PageInv
<1> SUFFICES ASSUME InitWeb PROVE ViewsFollowed /\ ConfirmersWork /\ PageInv
  OBVIOUS
<1>1. /\ \A p \in Pages : shown[p] = NoValue
      /\ \A w \in Workers : sender[w] = NoValue /\ session[w].task = NoValue
      /\ \A t \in Tasks : ~Exists(t)
      /\ answers = {} /\ lost = 0
      /\ NoValue \notin Tasks /\ NoValue \notin Pages
  BY WorkflowAssumption, WebAssumption DEF InitWeb, Init, Idle
<1>2. ViewsFollowed /\ ConfirmersWork
  BY <1>1 DEF ViewsFollowed, ConfirmersWork
<1>3. ASSUME NEW t \in Tasks
      PROVE  Owned(t)
  <2>1. \A p \in Pages : ~Knows(p, t) /\ ~Watches(p, t)
    BY <1>1 DEF Knows, Told, Watches
  <2> QED BY <1>1, <2>1 DEF Owned, OnePage, Told, Knows, NewsIsFresh, PausersAlone
<1> QED BY <1>1, <1>2, <1>3 DEF PageInv

LEMMA PagesInvariant ==
  SpecWeb => [](WebTyped /\ Served /\ ViewsFollowed /\ ConfirmersWork /\ PageInv)
<1>1. SpecWeb => []WebTyped /\ []Served
  BY WebTypedInvariant, WebIsWorkflow, ServedInvariant, PTL
<1>2. SpecWeb => []ViewsFollowed
  BY <1>1, InitPages, NextViewsFollowed, PTL DEF SpecWeb
<1> QED BY <1>1, <1>2, InitPages, NextConfirmers, NextOwned, PTL DEF SpecWeb

\* A page that has its task for itself and loses no answer shows the state of
\* the row whenever nothing is outstanding, whatever is clicked, how often and
\* in whichever order requests and answers overtake each other: only a failed
\* execution leaves it behind.
THEOREM OwnPagesAreCurrent == SpecWeb => []OwnPageIsCurrent
<1>1. WebTyped /\ Served /\ ViewsFollowed /\ ConfirmersWork /\ PageInv => OwnPageIsCurrent
  <2> SUFFICES ASSUME WebTyped, Served, ConfirmersWork, PageInv,
                      NEW p \in Pages, shown[p] # NoValue, shown[p].task \notin foreign,
                      lost = 0, ~Awaits(p)
               PROVE  tasks[shown[p].task].state \in {shown[p].state, "EXECUTING"}
    BY DEF OwnPageIsCurrent
  <2>1. PICK t \in Tasks \ foreign : t = shown[p].task /\ Exists(t)
    BY DEF WebTyped, WebTypeOK, ViewsExist, View
  <2>2. Owned(t) /\ Watches(p, t) /\ Knows(p, t) /\ Explained(p, t)
    BY <2>1 DEF PageInv, Owned, Watches, Knows, Told
  <2>3. \A w \in Workers : session[w].task # t
    BY <2>2 DEF Owned, OnePage, Awaits
  <2>4. tasks[t].state \notin {"RECONCILING", "CONFIRMING"}
    BY <2>1, <2>3 DEF ConfirmersWork
  <2> QED BY <2>1, <2>2, <2>3, <2>4 DEF Explained, Awaits
<1> QED BY <1>1, PagesInvariant, PTL

\* Answers to one page may overtake each other, but none takes the page back to
\* an earlier state of a task that no other client has acted on, although the
\* page keeps no order of its requests and renders whatever comes in.
THEOREM PagesNeverGoBack == SpecWeb => ShownNeverGoesBack
<1> DEFINE Ahead == \A p \in Pages :
                      /\ shown[p] # NoValue /\ shown'[p] # NoValue
                      /\ shown'[p].task = shown[p].task
                      /\ shown[p].task \notin foreign
                      => Progress(shown'[p].state) >= Progress(shown[p].state)
<1>1. /\ WebTyped /\ Served /\ ViewsFollowed /\ ConfirmersWork /\ PageInv
      /\ [NextWeb]_<<vars, webVars>>
      => [Ahead]_<<vars, webVars>>
  <2> SUFFICES ASSUME WebTyped, ViewsFollowed, PageInv, NextWeb,
                      NEW p \in Pages, shown[p] # NoValue, shown'[p] # NoValue,
                      shown'[p].task = shown[p].task, shown[p].task \notin foreign
               PROVE  Progress(shown'[p].state) >= Progress(shown[p].state)
    OBVIOUS
  <2>0. WebTypeOK
    BY DEF WebTyped
  <2>1. PICK t \in Tasks \ foreign : t = shown[p].task
    BY <2>0 DEF WebTypeOK, View
  <2>2. /\ shown[p].state \in ViewState
        /\ Follows(shown[p].state, tasks[t].state)
    BY <2>1 DEF ViewsFollowed, ViewFollowed
  <2>3. \A state \in ViewState : Progress(state) >= 1 /\ Progress(state) <= 3
    BY DEF ViewState, Progress
  <2>4. CASE shown'[p] = shown[p]
    BY <2>2, <2>3, <2>4 DEF ViewState, Progress
  <2>5. ASSUME NEW a \in answers, shown'[p] = a.view
        PROVE  Progress(shown'[p].state) >= Progress(shown[p].state)
    <3>1. News(a, t) /\ a.view.state \in ViewState
      BY <2>1, <2>5 DEF News, ViewsFollowed, ViewFollowed
    <3>2. CASE a.view.state = "COMPLETED"
      BY <2>2, <2>5, <3>2 DEF ViewState, Progress
    <3>3. CASE a.view.state # "COMPLETED"
      <4>1. tasks[t].state = a.view.state
        BY <3>1, <3>3 DEF PageInv, Owned, NewsIsFresh, OpenNews
      <4> QED BY <2>2, <2>5, <3>1, <3>3, <4>1 DEF Follows, UnderWay, ViewState, Progress
    <3> QED BY <3>2, <3>3
  <2>6. \/ shown'[p] = shown[p]
        \/ \E a \in answers : shown'[p] = a.view
    BY WebViews DEF ViewsStep
  <2> QED BY <2>4, <2>5, <2>6
<1> QED BY <1>1, PagesInvariant, PTL DEF SpecWeb, ShownNeverGoesBack
=============================================================================
