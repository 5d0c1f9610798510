----------------------------- MODULE WebClient ------------------------------
(***************************************************************************)
(* The pages of web/static/app.js in front of the task workflow.           *)
(*                                                                         *)
(* A page knows only the task in the last answer it rendered.  It offers   *)
(* what that answer allowed and never asks the server again: there is no   *)
(* refresh, and a refused request leaves a toast and nothing else.  Only   *)
(* the run button is disabled while its request is out, so decisions can   *)
(* be clicked repeatedly; answers arrive in any order, or not at all.      *)
(* Other clients of the API decide about the same tasks.                   *)
(***************************************************************************)
EXTENDS TaskWorkflow

CONSTANTS
  Pages,   \* open pages
  Clerk,   \* the actor_id that app.js sends with every decision
  MaxLost  \* bound on the connections that break

VARIABLES
  shown,    \* what each page has rendered
  running,  \* pages whose run button is disabled
  sender,   \* for each request in progress the page that waits for it
  answers,  \* responses on their way
  foreign,  \* history: tasks another client has sent a request about
  lost      \* connections that broke so far

webVars == <<shown, running, sender, answers, foreign, lost>>

\* What a page reads of a TaskRead, or of an error.
View == [task : Tasks, state : TaskState, receipt : Receipt \cup {NoValue}]
Answer == [page : Pages, run : BOOLEAN, view : View \cup {NoValue}]

ASSUME WebAssumption ==
  /\ NoValue \notin Pages
  /\ NoValue \notin View
  /\ MaxLost \in Nat

InitWeb ==
  /\ Init
  /\ shown = [p \in Pages |-> NoValue]
  /\ running = {}
  /\ sender = [w \in Workers |-> NoValue]
  /\ answers = {}
  /\ foreign = {}
  /\ lost = 0

Shows(p, state) == shown[p] # NoValue /\ shown[p].state = state
Watches(p, t) == shown[p] # NoValue /\ shown[p].task = t

-----------------------------------------------------------------------------
(* Clicks.                                                                 *)

\* runTask.
ClickRun(p, w) ==
  /\ p \notin running
  /\ \E t \in Tasks, u \in Users, project \in Projects,
        action \in RequestedAction, research \in BOOLEAN, mode \in Modes :
       CreateTask(w, t, u, project, action, research, mode)
  /\ running' = running \cup {p}
  /\ sender' = [sender EXCEPT ![w] = p]
  /\ UNCHANGED <<shown, answers, foreign, lost>>

\* decide: the buttons of renderAction, and a request that the server accepts.
\* One that it refuses changes nothing.
OffersDecision(p) == Shows(p, "APPROVAL_PENDING")
OffersResume(p) == Shows(p, "APPROVED")

ClickDecision(p, w) ==
  /\ \/ OffersDecision(p) /\ Approve(w, shown[p].task, Clerk)
     \/ OffersDecision(p) /\ Reject(w, shown[p].task, Clerk)
     \/ OffersResume(p) /\ Resume(w, shown[p].task, Clerk)
  /\ sender' = [sender EXCEPT ![w] = p]
  /\ UNCHANGED <<shown, running, answers, foreign, lost>>

\* The same click when the task is COMPLETED: approve_task and resume_task
\* answer with the task.
AnswersResumeOnly(p) == OffersResume(p)
AnswersCompleted(p) == OffersDecision(p) \/ OffersResume(p)

ViewOf(t) ==
  [task |-> t, state |-> tasks[t].state, receipt |-> tasks[t].receipt]

ClickOnCompleted(p) ==
  /\ AnswersCompleted(p)
  /\ tasks[shown[p].task].state = "COMPLETED"
  /\ answers' = answers \cup
       {[page |-> p, run |-> FALSE, view |-> ViewOf(shown[p].task)]}
  /\ UNCHANGED <<vars, shown, running, sender, foreign, lost>>

\* A decision that no page waits for.  Tasks that others create are on no page.
ArriveElsewhere(w) ==
  /\ Arrive(w)
  /\ session'[w].at \notin Creating
  /\ foreign' = foreign \cup {session'[w].task}
  /\ UNCHANGED <<shown, running, sender, answers, lost>>

-----------------------------------------------------------------------------
(* Answers.                                                                *)

\* task_to_read serves the row as it was when the request came in, or as the
\* request's own session knows it: with the receipt only if it has stored one.
ViewAtArrival(w) ==
  [ViewOf(session[w].task) EXCEPT !.state = session[w].seen]
ViewBySession(w) ==
  [task |-> session[w].task,
   state |-> IF At(w, "pause") THEN session[w].seen
             ELSE tasks'[session[w].task].state,
   receipt |-> IF At(w, "complete") THEN session[w].result ELSE NoValue]

\* The last commits of requests that succeed.
Succeeding == {"judge", "conclude", "mark_rejected", "pause", "complete"}
InCreation(w) == session[w].at \in Creating

Reply(w, view) ==
  answers' = answers \cup
    (IF sender[w] = NoValue THEN {}
     ELSE {[page |-> sender[w], run |-> InCreation(w), view |-> view]})

\* The server goes on with a request, and answers when it ends.
Serve(w) ==
  /\ Proceed(w)
  /\ IF session'[w].at # "idle" THEN UNCHANGED <<answers, sender>>
     ELSE /\ Reply(w, IF session[w].at \in Succeeding THEN ViewBySession(w)
                                                      ELSE NoValue)
          /\ sender' = [sender EXCEPT ![w] = NoValue]
  /\ UNCHANGED <<shown, running, foreign, lost>>

\* An error that nobody is told about.
ServeErrorSilently(w) ==
  /\ CreationFails(w)
  /\ UNCHANGED webVars

ServeCreationError(w) ==
  /\ CreationFails(w)
  /\ Reply(w, NoValue)
  /\ sender' = [sender EXCEPT ![w] = NoValue]
  /\ UNCHANGED <<shown, running, foreign, lost>>

\* The finally clause of runTask.
Settle(a) == running' = IF a.run THEN running \ {a.page} ELSE running

\* renderTask, or the toast of an error.
Render(a) ==
  /\ a \in answers
  /\ answers' = answers \ {a}
  /\ Settle(a)
  /\ shown' = IF a.view = NoValue THEN shown
              ELSE [shown EXCEPT ![a.page] = a.view]
  /\ UNCHANGED <<vars, sender, foreign, lost>>

\* The connection breaks while the request is in progress, or on the way back:
\* the fetch fails and the server does not notice.
BreakWaiting(w) ==
  /\ lost < MaxLost
  /\ sender[w] # NoValue
  /\ sender' = [sender EXCEPT ![w] = NoValue]
  /\ running' = IF InCreation(w) THEN running \ {sender[w]} ELSE running
  /\ lost' = lost + 1
  /\ UNCHANGED <<vars, shown, answers, foreign>>

BreakAnswered(a) ==
  /\ lost < MaxLost
  /\ a \in answers
  /\ answers' = answers \ {a}
  /\ Settle(a)
  /\ lost' = lost + 1
  /\ UNCHANGED <<vars, shown, sender, foreign>>

\* The page is loaded again: it asks for the context, knows no task, and its
\* requests have lost their page.
Reload(p) ==
  /\ shown[p] # NoValue
  /\ shown' = [shown EXCEPT ![p] = NoValue]
  /\ running' = running \ {p}
  /\ sender' = [w \in Workers |-> IF sender[w] = p THEN NoValue ELSE sender[w]]
  /\ answers' = {a \in answers : a.page # p}
  /\ UNCHANGED <<vars, foreign, lost>>

NextWeb ==
  \/ \E p \in Pages, w \in Workers : ClickRun(p, w) \/ ClickDecision(p, w)
  \/ \E p \in Pages : ClickOnCompleted(p) \/ Reload(p)
  \/ \E w \in Workers :
       \/ ArriveElsewhere(w) \/ Serve(w) \/ ServeCreationError(w)
       \/ BreakWaiting(w)
  \/ \E a \in answers : Render(a) \/ BreakAnswered(a)

SpecWeb == InitWeb /\ [][NextWeb]_<<vars, webVars>>

\* The server works, the browser renders what arrives, and the user of a page
\* keeps clicking on a button that promises to get on.
PatientUser ==
  /\ \A w \in Workers : WF_<<vars, webVars>>(Serve(w))
  /\ \A p \in Pages :
       /\ WF_<<vars, webVars>>(\E a \in answers : a.page = p /\ Render(a))
       /\ WF_<<vars, webVars>>(ClickOnCompleted(p))

FairWeb == SpecWeb /\ PatientUser

-----------------------------------------------------------------------------
(* Properties.                                                             *)

WebTypeOK ==
  /\ shown \in [Pages -> View \cup {NoValue}]
  /\ running \subseteq Pages
  /\ sender \in [Workers -> Pages \cup {NoValue}]
  /\ answers \subseteq Answer
  /\ \A w \in Workers : sender[w] # NoValue => ~At(w, "idle")

\* What the page says in words holds whatever has happened since it was
\* rendered: "Action rejected. No ticket was created", "safely paused after
\* approval", and a receipt is that of a ticket that exists.
PageTellsTheTruth ==
  \A p \in Pages : shown[p] # NoValue =>
    LET v == shown[p]
        decided(d) == \E x \in approvals : x.task = v.task /\ x.decision = d
    IN
    /\ v.state = "REJECTED" =>
         /\ decided("rejected")
         /\ \A i \in DOMAIN attempts : attempts[i].task # v.task
    /\ v.state = "APPROVED" => decided("approved")
    /\ v.receipt # NoValue =>
         \E x \in FindByKey(tasks[v.task].preview) : x.num = v.receipt.num

Awaits(p) ==
  \/ \E w \in Workers : sender[w] = p
  \/ \E a \in answers : a.page = p

\* Clicking twice, or two different buttons, does not confuse a page that has
\* the task for itself and loses no answer: when nothing is outstanding it shows
\* the state of the row, unless the execution of the task has failed.
OwnPageIsCurrent ==
  \A p \in Pages :
    shown[p] # NoValue /\ shown[p].task \notin foreign /\ lost = 0 /\ ~Awaits(p)
      => tasks[shown[p].task].state \in {shown[p].state, "EXECUTING"}

Progress(state) ==
  CASE state = "APPROVAL_PENDING" -> 1
    [] state = "APPROVED" -> 2
    [] state \in {"COMPLETED", "REJECTED", "FAILED"} -> 3

\* Answers to one page overtake each other, but as long as no other client acts
\* on the task none of them is older than what the page shows.
ShownNeverGoesBack ==
  [][\A p \in Pages :
       /\ shown[p] # NoValue /\ shown'[p] # NoValue
       /\ shown'[p].task = shown[p].task
       /\ shown[p].task \notin foreign
       => Progress(shown'[p].state) >= Progress(shown[p].state)
    ]_<<vars, webVars>>

\* A page that missed the end of its task, because the answer was lost or
\* another client brought it about, comes to show it.
CompletionIsShown ==
  \A p \in Pages, t \in Tasks :
    (Watches(p, t) /\ StateOf(t) = "COMPLETED")
      ~> (Watches(p, t) => Shows(p, "COMPLETED"))
=============================================================================
