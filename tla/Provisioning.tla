---------------------------- MODULE Provisioning ----------------------------
(***************************************************************************)
(* How the database gets its tables and its reference data: start-up       *)
(* (lifespan in main.py), POST /api/workspace/reset and the seed command,  *)
(* as runs of the same three steps: drop_all if it is a reset, create_all, *)
(* seed_reference_data.                                                    *)
(*                                                                         *)
(* drop_all and create_all ask the database which tables there are and     *)
(* then issue one statement per table and index.  In PostgreSQL those are  *)
(* one transaction; in SQLite, whose driver opens no transaction for DDL,  *)
(* each is committed by itself.  The data is inserted in one transaction   *)
(* in both.  Nothing keeps two runs apart.                                 *)
(***************************************************************************)
EXTENDS Naturals, Sequences

CONSTANTS
  Runs,   \* start-ups and resets, each done at most once
  Kinds   \* what they may be: subset of Kind

VARIABLES
  engine,    \* which database VAA_DATABASE_URL names
  schema,    \* the tables that exist, and key_index
  rows,      \* the tables that hold reference data
  run,       \* the progress of each run
  disturbed  \* SQLite only, and history: since the last reset that began alone,
             \* a reset died or overlapped with another run

provisioningVars == <<engine, schema, rows, run, disturbed>>

\* "start" seeds and "bare_start" does not (VAA_AUTO_SEED).
Kind == {"start", "bare_start", "reset"}

\* The tables of models.py in the order of creation, the four that refer to
\* tasks as one, and the unique index on idempotency_key, which is a statement of
\* its own after its table.
CreationOrder ==
  <<"users", "projects", "external_tickets", "key_index",
    "project_memberships", "documents", "tasks", "task_tables">>
Schema == {CreationOrder[i] : i \in DOMAIN CreationOrder}
ReferenceTables == {"users", "projects", "project_memberships", "documents"}

Resting == {"waiting", "done", "failed", "dead"}
Stage == Resting \cup
  {"list_for_drop", "drop", "list_for_create", "create", "read_users", "insert"}

ASSUME ProvisioningAssumption == Kinds \subseteq Kind

InProgress(o) == run[o].stage \notin Resting

Init ==
  /\ engine \in {"sqlite", "postgresql"}
  /\ schema \in {{}, Schema}
  /\ rows = schema \cap ReferenceTables
  /\ run = [o \in Runs |-> [kind |-> "start", stage |-> "waiting", todo |-> {}]]
  /\ disturbed = FALSE

-----------------------------------------------------------------------------
(* Steps of a run.                                                         *)

Goto(o, stage) == run' = [run EXCEPT ![o].stage = stage]
GotoWith(o, stage, todo) ==
  run' = [run EXCEPT ![o].stage = stage, ![o].todo = todo]
Fail(o) == GotoWith(o, "failed", {})

\* A reset that does not seed.
AfterWithoutSeeding(o, stage) ==
  CASE stage = "drop" -> "list_for_create"
    [] stage = "create" ->
         IF run[o].kind = "start" THEN "read_users" ELSE "done"
\* drop_all and create_all return with their last statement.
After(o, stage) ==
  CASE stage = "drop" -> "list_for_create"
    [] stage = "create" ->
         IF run[o].kind = "bare_start" THEN "done" ELSE "read_users"
Continue(o, stage, todo) ==
  GotoWith(o, IF todo = {} THEN After(o, stage) ELSE stage, todo)

\* A reset that begins alone will replace whatever is there.
BeginRun(o, kind) ==
  LET others == {p \in Runs : InProgress(p)} IN
  /\ run[o].stage = "waiting"
  /\ run' = [run EXCEPT ![o].kind = kind,
               ![o].stage = IF kind = "reset" THEN "list_for_drop"
                                              ELSE "list_for_create"]
  /\ disturbed' =
       IF kind = "reset" /\ others = {} THEN FALSE
       ELSE \/ disturbed
            \/ /\ engine = "sqlite"
               /\ \E p \in others : "reset" \in {kind, run[p].kind}
  /\ UNCHANGED <<engine, schema, rows>>

\* The questions of drop_all and of create_all: which tables are there?  An
\* index is created only along with its table.
ListForDrop(o) ==
  /\ run[o].stage = "list_for_drop"
  /\ Continue(o, "drop", schema \ {"key_index"})
  /\ UNCHANGED <<engine, schema, rows, disturbed>>

\* create_all without the question.
ListEverything == Schema
ListMissing ==
  {s \in Schema : IF s = "key_index" THEN "external_tickets" \notin schema
                                       ELSE s \notin schema}

ListForCreate(o) ==
  /\ run[o].stage = "list_for_create"
  /\ Continue(o, "create", ListMissing)
  /\ UNCHANGED <<engine, schema, rows, disturbed>>

\* Tables are created in the order above and dropped in the reverse order.
Earlier(s, u) ==
  \E i, j \in DOMAIN CreationOrder :
    i < j /\ CreationOrder[i] = s /\ CreationOrder[j] = u
Due(o) ==
  {s \in run[o].todo : \A u \in run[o].todo \ {s} :
     IF run[o].stage = "drop" THEN Earlier(u, s) ELSE Earlier(s, u)}

\* Statements that are always committed one by one.
BatchesOfOne(o) == {{s} : s \in Due(o)}
\* The statements that are committed together: all of them, or the next one.
Batches(o) == IF engine = "postgresql" THEN {run[o].todo} ELSE {{s} : s \in Due(o)}

\* An index that survives its table.
DroppedAlone(tables) == tables
\* An index goes with its table.
Dropped(tables) ==
  tables \cup (IF "external_tickets" \in tables THEN {"key_index"} ELSE {})

\* DROP TABLE raises if the table is gone by now.
DropNext(o) ==
  /\ run[o].stage = "drop"
  /\ \E batch \in Batches(o) :
       IF batch \subseteq schema
         THEN /\ schema' = schema \ Dropped(batch)
              /\ rows' = rows \ batch
              /\ Continue(o, "drop", run[o].todo \ batch)
         ELSE Fail(o) /\ UNCHANGED <<schema, rows>>
  /\ UNCHANGED <<engine, disturbed>>

\* CREATE raises if the name is taken by now, or the table of the index gone.
CreateNext(o) ==
  /\ run[o].stage = "create"
  /\ \E batch \in Batches(o) :
       IF /\ batch \cap schema = {}
          /\ "key_index" \in batch => "external_tickets" \in schema \cup batch
         THEN /\ schema' = schema \cup batch
              /\ Continue(o, "create", run[o].todo \ batch)
         ELSE Fail(o) /\ UNCHANGED schema
  /\ UNCHANGED <<engine, rows, disturbed>>

\* seed_reference_data: nothing to do as soon as there is one user.
ReadUsers(o) ==
  /\ run[o].stage = "read_users"
  /\ IF "users" \notin schema THEN Fail(o)
     ELSE Goto(o, IF "users" \in rows THEN "done" ELSE "insert")
  /\ UNCHANGED <<engine, schema, rows, disturbed>>

\* Rows that are inserted and committed table by table.
InsertTableByTable(o) ==
  /\ run[o].stage = "insert"
  /\ \E s \in ReferenceTables \ rows :
       /\ s \in schema
       /\ rows' = rows \cup {s}
       /\ Goto(o, IF rows' = ReferenceTables THEN "done" ELSE "insert")
  /\ UNCHANGED <<engine, schema, disturbed>>

\* One transaction.  It raises if a table is gone or a row is there by now.
InsertReferenceData(o) ==
  /\ run[o].stage = "insert"
  /\ IF ReferenceTables \subseteq schema /\ rows = {}
       THEN rows' = ReferenceTables /\ Goto(o, "done")
       ELSE Fail(o) /\ UNCHANGED rows
  /\ UNCHANGED <<engine, schema, disturbed>>

\* The process dies, or the connection is lost.
Die(o) ==
  /\ InProgress(o)
  /\ GotoWith(o, "dead", {})
  /\ disturbed' =
       (disturbed \/ (engine = "sqlite" /\ run[o].kind = "reset"))
  /\ UNCHANGED <<engine, schema, rows>>

Step(o) ==
  \/ ListForDrop(o) \/ DropNext(o) \/ ListForCreate(o) \/ CreateNext(o)
  \/ ReadUsers(o) \/ InsertReferenceData(o)

Next ==
  \E o \in Runs :
    \/ \E kind \in Kinds : BeginRun(o, kind)
    \/ Step(o)
    \/ Die(o)

\* A run that has begun goes on, unless it dies.
Spec ==
  Init /\ [][Next]_provisioningVars
       /\ \A o \in Runs : WF_provisioningVars(Step(o))

-----------------------------------------------------------------------------
(* Properties.                                                             *)

TypeOK ==
  /\ engine \in {"sqlite", "postgresql"}
  /\ schema \subseteq Schema
  /\ "key_index" \in schema => "external_tickets" \in schema
  /\ rows \subseteq schema \cap ReferenceTables
  /\ \A o \in Runs :
       /\ run[o].kind \in Kind
       /\ run[o].stage \in Stage
       /\ run[o].todo \subseteq Schema
       /\ run[o].stage \notin {"drop", "create"} => run[o].todo = {}
  /\ disturbed \in BOOLEAN

Quiet == \A o \in Runs : ~InProgress(o)

\* seed_reference_data asks for a user and concludes about four tables.  That is
\* right as long as all of them are filled or none is.
Seedable == rows \in {{}, ReferenceTables}

\* With PostgreSQL the question of seed_reference_data never misleads, whatever
\* overlaps or dies at whatever point;
TransactionsKeepItSeedable == engine = "postgresql" => Seedable

\* with SQLite it does not mislead whoever asks it at rest, unless a reset died or
\* overlapped with another run and no reset has begun alone since.
SeedableAtRest == Quiet /\ ~disturbed => Seedable

\* o reports success and nothing else is in progress.
FinishesLast(o) ==
  /\ InProgress(o)
  /\ run'[o].stage = "done"
  /\ \A p \in Runs : run'[p].stage \in Resting

\* Whoever finishes last and reports success leaves every table in place, and
\* the reference data too if it is to seed: always with PostgreSQL, and with
\* SQLite unless a reset died or overlapped with another run and no reset has
\* begun alone since (AutoSeedSeeds shows that case).  A reset that is then run
\* alone repairs what the other left.
SuccessMeansReady ==
  [][\A o \in Runs :
       FinishesLast(o) /\ ~disturbed
       => /\ Schema \ {"key_index"} \subseteq schema'
          /\ run[o].kind # "bare_start" => rows' = ReferenceTables
    ]_provisioningVars

\* create_all does not look for an index of a table that is there: the only
\* protection against two tickets with one key is missing for good once a run
\* dies between the two statements.  Nothing else loses it.
KeyIndexIsLostOnlyByDeath ==
  Quiet /\ "external_tickets" \in schema /\ "key_index" \notin schema
    => engine = "sqlite" /\ \E o \in Runs : run[o].stage = "dead"

\* Runs that get into each other's way fail, but never all of them with
\* PostgreSQL, nor when only start-ups overlap.  With SQLite a reset and another
\* run can both fail: a start-up finds the first tables dropped, the reset drops
\* the rest and finds all missing, and either trips over what the other did.
AllFailOnlyAroundReset ==
  /\ \E o \in Runs : run[o].stage = "failed"
  /\ \A o \in Runs : run[o].stage \in {"waiting", "failed"}
  => /\ engine = "sqlite"
     /\ \E o, p \in Runs :
          /\ o # p
          /\ run[o].stage = "failed" /\ run[o].kind = "reset"
          /\ run[p].stage = "failed"

\* A start-up that seeds and finishes last, with every table in place, leaves the
\* reference data in them, README.md: "Seed reference data on startup".
AutoSeedSeeds ==
  [][\A o \in Runs :
       /\ run[o].kind = "start" /\ FinishesLast(o)
       /\ Schema \ {"key_index"} \subseteq schema'
       => rows' = ReferenceTables
    ]_provisioningVars
=============================================================================
