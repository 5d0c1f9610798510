--------------------------- MODULE WorkspaceReset ---------------------------
(***************************************************************************)
(* The task workflow while POST /api/workspace/reset drops, creates and    *)
(* seeds the tables under it.                                              *)
(*                                                                         *)
(* Requests in progress notice nothing: their sessions go on from the copy *)
(* of the task they hold.  What becomes of a commit is decided by the      *)
(* statements in it.  An UPDATE of an erased task matches no row, which    *)
(* SQLAlchemy reports as a StaleDataError; an INSERT of a row that only    *)
(* refers to the task goes through in SQLite, whose foreign keys are off,  *)
(* and raises in PostgreSQL; a ticket refers to nothing and always goes    *)
(* through.  The drops are one step here: what a request still writes into *)
(* a table that is about to be dropped is gone with it.  Provisioning has  *)
(* the statements of a reset one by one.  Processes do not die here.       *)
(***************************************************************************)
EXTENDS TaskWorkflow

CONSTANT MaxResets  \* bound on the number of resets

VARIABLES
  database,  \* "up"; "dropped": no tables; "empty": tables without rows
  erased,    \* tasks whose row was dropped; tasks[t] is then the copy that
             \* the sessions of its requests hold
  resets     \* resets so far

resetVars == <<database, erased, resets>>

ASSUME ResetAssumption == MaxResets \in Nat

InitWithReset ==
  /\ Init
  /\ database = "up"
  /\ erased = {}
  /\ resets = 0

-----------------------------------------------------------------------------
(* reset_workspace, one at a time.                                         *)

\* A reset of the simulated ticket system alone.
DropTicketsOnly ==
  /\ database = "up"
  /\ resets < MaxResets
  /\ tickets' = {}
  /\ database' = "dropped"
  /\ resets' = resets + 1
  /\ UNCHANGED <<tasks, approvals, attempts, audit, session, erased>>

\* Base.metadata.drop_all.  The ids of attempts start again at 1.
DropTables ==
  /\ database = "up"
  /\ resets < MaxResets
  /\ approvals' = {} /\ attempts' = <<>> /\ audit' = {} /\ tickets' = {}
  /\ erased' = {t \in Tasks : Exists(t)}
  /\ database' = "dropped"
  /\ resets' = resets + 1
  /\ UNCHANGED <<tasks, session>>

\* init_database, and seed_reference_data.
CreateTables ==
  /\ database = "dropped"
  /\ database' = "empty"
  /\ UNCHANGED <<vars, erased, resets>>

SeedTables ==
  /\ database = "empty"
  /\ database' = "up"
  /\ UNCHANGED <<vars, erased, resets>>

-----------------------------------------------------------------------------
(* Requests.                                                               *)

Overtaken(w) == session[w].task \in erased

\* The commits that UPDATE the row of the task, the commits that INSERT rows
\* referring to it, and the statement that reads memberships.
UpdatesTask ==
  {"contract", "gather", "verify", "analyze", "judge", "conclude",
   "mark_approved", "mark_rejected", "execute", "succeed", "timed_out",
   "reconciled", "receipt", "complete"}
InsertsReference == {"retrieve", "approve", "reject", "pause", "resume", "open"}
ReadsMembership == {"open"}

\* An erased task is unknown to a new request, and before the users are seeded
\* every request is refused.
ArriveInWorkspace(w) ==
  /\ database = "up"
  /\ Arrive(w)
  /\ session'[w].task \notin erased
  /\ UNCHANGED resetVars

ProceedInWorkspace(w) ==
  /\ database # "dropped"
  /\ session[w].at \in UpdatesTask => ~Overtaken(w)
  /\ database = "empty" => session[w].at \notin ReadsMembership
  /\ Proceed(w)
  /\ UNCHANGED resetVars

\* The except clause of create_task finds the row of a task that is not erased.
CreationFailsInWorkspace(w) ==
  /\ ~Overtaken(w)
  /\ CreationFails(w)
  /\ UNCHANGED resetVars

\* A table, a row or a membership is missing: the request ends with an error.
\* The except clause of create_task finds no row to set to FAILED.
RequestOvertaken(w) ==
  /\ ~At(w, "idle")
  /\ \/ database = "dropped"
     \/ database = "empty" /\ session[w].at \in ReadsMembership
     \/ Overtaken(w) /\ session[w].at \in UpdatesTask \cup InsertsReference
  /\ Finish(w)
  /\ UNCHANGED <<tasks, approvals, attempts, audit, tickets, resetVars>>

NextWithReset ==
  \/ DropTables \/ CreateTables \/ SeedTables
  \/ \E w \in Workers :
       \/ ArriveInWorkspace(w)
       \/ ProceedInWorkspace(w)
       \/ CreationFailsInWorkspace(w)
       \/ RequestOvertaken(w)

SpecWithReset == InitWithReset /\ [][NextWithReset]_<<vars, resetVars>>

-----------------------------------------------------------------------------
(* Properties.                                                             *)

Live(t) == Exists(t) /\ t \notin erased

\* A reset opens no way around the approval: also a ticket that is written
\* after the approvals were dropped is the proposal of a task that had been
\* approved before the reset.
TicketsWereApproved ==
  \A x \in tickets :
    \E t \in Tasks :
      /\ Exists(t)
      /\ tasks[t].preview = x.key
      /\ IF t \in erased THEN tasks[t].state \in ApprovedStates
                         ELSE Approved(t)

\* What the tasks of the new workspace claim is true of the new workspace: a
\* receipt names a ticket that is there, and of the receipts for one ticket at
\* most one claims to have created it.
LiveReceiptsAreTrue ==
  \A t \in Tasks : Live(t) /\ tasks[t].receipt # NoValue =>
    /\ \E x \in FindByKey(tasks[t].preview) : x.num = tasks[t].receipt.num
    /\ ~tasks[t].receipt.replayed =>
         \A u \in Tasks \ {t} :
           Live(u) /\ tasks[u].receipt # NoValue
             /\ tasks[u].preview = tasks[t].preview
               => tasks[u].receipt.replayed

Dense == {x.num : x \in tickets} = 1 .. Cardinality(tickets)

\* The only thing that puts a gap into the ticket numbers is the insert of a
\* request that counted the tickets before a reset and inserts after it.
GapsComeFromOvertakenRequests ==
  [][Dense /\ ~Dense' =>
       \E w \in Workers : /\ At(w, "insert")
                          /\ Overtaken(w)
                          /\ session'[w] # session[w]]_<<vars, resetVars>>

\* A timeout always finds its ticket, unless a reset dropped the ticket: then
\* the request closes the attempt that has its number by now, whose task may be
\* another one.
UnconfirmedOnlyAfterReset ==
  [][(\E i \in DOMAIN attempts \cap DOMAIN attempts' :
        /\ attempts[i].status # "FAILED_UNCONFIRMED"
        /\ attempts'[i].status = "FAILED_UNCONFIRMED")
     => \E w \in Workers : /\ At(w, "reconcile")
                            /\ Overtaken(w)
                            /\ session'[w] # session[w]]_<<vars, resetVars>>
=============================================================================
