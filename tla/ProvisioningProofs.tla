------------------------- MODULE ProvisioningProofs -------------------------
(***************************************************************************)
(* Proofs about Provisioning, for any number of start-ups and resets that  *)
(* overlap and die, on either engine.                                      *)
(*                                                                         *)
(* A step of a run is described once by its outcome (StepIs).  Five        *)
(* invariants are then proved from the outcomes: IndexInv, that a run      *)
(* which created the table of the tickets owes the index until it has      *)
(* created it, or died; and on SQLite, as long as no reset is disturbed,   *)
(* AloneInv, what a reset and the runs after it find; OrderInv, that runs  *)
(* which overlap create the tables in one order; LeaderInv, that one of    *)
(* them is ahead of the others and finds nothing in its way; and           *)
(* CulpritInv, that it takes a reset to disturb one.                       *)
(***************************************************************************)
EXTENDS Provisioning, TLAPS

Progress == [kind : Kind, stage : Stage, todo : SUBSET Schema]

\* TypeOK needs to know that run is a function.
TypeInv ==
  /\ TypeOK
  /\ run \in [Runs -> Progress]

\* In PostgreSQL each listing finds all tables or none, and so do the
\* transactions that follow it.
AllOrNothing ==
  engine = "postgresql" =>
    /\ schema \in {{}, Schema}
    /\ rows \in {{}, ReferenceTables}
    /\ \A o \in Runs :
         /\ run[o].stage = "drop" => run[o].todo = Schema \ {"key_index"}
         /\ run[o].stage = "create" => run[o].todo = Schema

LEMMA SchemaMembers ==
  Schema = {"users", "projects", "external_tickets", "key_index",
            "project_memberships", "documents", "tasks", "task_tables"}
BY DEF Schema, CreationOrder

Inv == TypeInv /\ AllOrNothing

\* From a step's effect on the tables and on one run to the invariant.
LEMMA StepKeepsInv ==
  ASSUME Inv, NEW o \in Runs, NEW stage \in Stage, NEW todo \in SUBSET Schema,
         run' = [run EXCEPT ![o].stage = stage, ![o].todo = todo],
         stage \notin {"drop", "create"} => todo = {},
         engine' = engine, disturbed' \in BOOLEAN,
         schema' \subseteq Schema, rows' \subseteq schema' \cap ReferenceTables,
         "key_index" \in schema' => "external_tickets" \in schema',
         engine = "postgresql" =>
           /\ schema' \in {{}, Schema}
           /\ rows' \in {{}, ReferenceTables}
           /\ stage = "drop" => todo = Schema \ {"key_index"}
           /\ stage = "create" => todo = Schema
  PROVE  Inv'
<1>1. run \in [Runs -> Progress]
  BY DEF Inv, TypeInv
<1>2. /\ run' \in [Runs -> Progress]
      /\ run'[o].kind = run[o].kind
      /\ run'[o].stage = stage /\ run'[o].todo = todo
      /\ \A p \in Runs \ {o} : run'[p] = run[p]
  BY <1>1 DEF Progress
<1>3. TypeOK'
  BY <1>2 DEF Inv, TypeInv, TypeOK, Progress
<1>4. AllOrNothing'
  BY <1>2 DEF Inv, AllOrNothing
<1> QED
  BY <1>2, <1>3, <1>4 DEF Inv, TypeInv

\* The members of the sets of stages.
LEMMA Stages ==
  ASSUME Inv, NEW o \in Runs
  PROVE  /\ run \in [Runs -> Progress]
         /\ run[o].kind \in Kind /\ run[o].stage \in Stage
         /\ run[o].todo \subseteq Schema
         /\ schema \subseteq Schema /\ rows \subseteq schema \cap ReferenceTables
         /\ "key_index" \in schema => "external_tickets" \in schema
         /\ disturbed \in BOOLEAN
BY DEF Inv, TypeInv, TypeOK

\* Continue leads to the next statement or to the next phase.
LEMMA Continues ==
  ASSUME Inv, NEW o \in Runs, NEW stage \in {"drop", "create"},
         NEW todo \in SUBSET Schema, Continue(o, stage, todo),
         engine' = engine, disturbed' \in BOOLEAN,
         schema' \subseteq Schema, rows' \subseteq schema' \cap ReferenceTables,
         "key_index" \in schema' => "external_tickets" \in schema',
         engine = "postgresql" =>
           /\ schema' \in {{}, Schema}
           /\ rows' \in {{}, ReferenceTables}
           /\ todo # {} => todo = IF stage = "drop" THEN Schema \ {"key_index"}
                                                   ELSE Schema
  PROVE  Inv'
<1> DEFINE next == IF todo = {} THEN After(o, stage) ELSE stage
<1>1. next \in Stage /\ (next \notin {"drop", "create"} => todo = {})
  BY Stages DEF After, Stage, Resting
<1>2. engine = "postgresql" =>
        /\ next = "drop" => todo = Schema \ {"key_index"}
        /\ next = "create" => todo = Schema
  BY DEF After
<1>3. run' = [run EXCEPT ![o].stage = next, ![o].todo = todo]
  BY DEF Continue, GotoWith
<1> HIDE DEF next
<1> QED
  BY <1>1, <1>2, <1>3, StepKeepsInv

\* A run that ends without a change to the tables.
LEMMA EndKeepsInv ==
  ASSUME Inv, NEW o \in Runs, NEW stage \in Resting, GotoWith(o, stage, {}),
         disturbed' \in BOOLEAN, UNCHANGED <<engine, schema, rows>>
  PROVE  Inv'
<1>1. run' = [run EXCEPT ![o].stage = stage, ![o].todo = {}]
  BY DEF GotoWith
<1>2. stage \in Stage /\ stage \notin {"drop", "create"}
  BY DEF Stage, Resting
<1>3. engine = "postgresql" =>
        schema' \in {{}, Schema} /\ rows' \in {{}, ReferenceTables}
  BY DEF Inv, AllOrNothing
<1>4. /\ schema' \subseteq Schema /\ rows' \subseteq schema' \cap ReferenceTables
      /\ "key_index" \in schema' => "external_tickets" \in schema'
      /\ engine' = engine
  BY Stages
<1>5. stage # "drop" /\ stage # "create" /\ {} \in SUBSET Schema
  BY <1>2
<1> QED
  BY <1>1, <1>2, <1>3, <1>4, <1>5, StepKeepsInv

\* A step that goes to a stage without statements.
LEMMA GotoKeepsInv ==
  ASSUME Inv, NEW o \in Runs, NEW stage \in Stage \ {"drop", "create"},
         Goto(o, stage), run[o].stage \notin {"drop", "create"},
         engine' = engine, schema' = schema, disturbed' = disturbed,
         rows' = rows \/ (rows' = ReferenceTables /\ ReferenceTables \subseteq schema)
  PROVE  Inv'
<1>1. run' = [run EXCEPT ![o].stage = stage, ![o].todo = {}]
  BY Stages DEF Goto, Progress, Inv, TypeInv, TypeOK
<1>2. /\ schema' \subseteq Schema /\ rows' \subseteq schema' \cap ReferenceTables
      /\ "key_index" \in schema' => "external_tickets" \in schema'
      /\ disturbed' \in BOOLEAN
  BY Stages
<1>3. engine = "postgresql" =>
        schema' \in {{}, Schema} /\ rows' \in {{}, ReferenceTables}
  BY DEF Inv, AllOrNothing
<1>4. stage # "drop" /\ stage # "create" /\ {} \in SUBSET Schema
  OBVIOUS
<1> QED
  BY <1>1, <1>2, <1>3, <1>4, StepKeepsInv

-----------------------------------------------------------------------------
LEMMA BeginRunKeepsInv ==
  ASSUME Inv, NEW o \in Runs, NEW kind \in Kinds, BeginRun(o, kind)
  PROVE  Inv'
<1> DEFINE stage == IF kind = "reset" THEN "list_for_drop" ELSE "list_for_create"
<1>1. run' = [run EXCEPT ![o].kind = kind, ![o].stage = stage]
  BY DEF BeginRun
<1>2. kind \in Kind /\ stage \in Stage \ {"drop", "create"}
  BY ProvisioningAssumption DEF Stage
<1>3. run \in [Runs -> Progress]
  BY Stages
<1> HIDE DEF stage
<1>4. /\ run' \in [Runs -> Progress]
      /\ run'[o].kind = kind
      /\ run'[o].stage = stage /\ run'[o].todo = run[o].todo
      /\ \A p \in Runs \ {o} : run'[p] = run[p]
  BY <1>1, <1>2, <1>3 DEF Progress
<1>5. run[o].todo = {}
  BY DEF BeginRun, Inv, TypeInv, TypeOK
<1>6. disturbed' \in BOOLEAN
  BY Stages DEF BeginRun
<1>7. UNCHANGED <<engine, schema, rows>>
  BY DEF BeginRun
<1>8. TypeOK'
  BY <1>2, <1>4, <1>5, <1>6, <1>7 DEF Inv, TypeInv, TypeOK, Progress
<1>9. AllOrNothing'
  BY <1>2, <1>4, <1>7 DEF Inv, AllOrNothing
<1> QED
  BY <1>4, <1>8, <1>9 DEF Inv, TypeInv

LEMMA ListForDropKeepsInv ==
  ASSUME Inv, NEW o \in Runs, ListForDrop(o)
  PROVE  Inv'
<1>1. /\ Continue(o, "drop", schema \ {"key_index"})
      /\ UNCHANGED <<engine, schema, rows, disturbed>>
  BY DEF ListForDrop
<1>2. schema \ {"key_index"} \subseteq Schema
  BY Stages
<1>3. engine = "postgresql" =>
        /\ schema' \in {{}, Schema} /\ rows' \in {{}, ReferenceTables}
        /\ schema \ {"key_index"} # {} =>
             schema \ {"key_index"} = Schema \ {"key_index"}
  BY <1>1 DEF Inv, AllOrNothing
<1>4. /\ schema' \subseteq Schema /\ rows' \subseteq schema' \cap ReferenceTables
      /\ "key_index" \in schema' => "external_tickets" \in schema'
      /\ disturbed' \in BOOLEAN
  BY <1>1, Stages
<1> QED
  BY <1>1, <1>2, <1>3, <1>4, Continues

LEMMA ListForCreateKeepsInv ==
  ASSUME Inv, NEW o \in Runs, ListForCreate(o)
  PROVE  Inv'
<1>1. /\ Continue(o, "create", ListMissing)
      /\ UNCHANGED <<engine, schema, rows, disturbed>>
  BY DEF ListForCreate
<1>2. ListMissing \subseteq Schema
  BY DEF ListMissing
<1>3. schema = {} => ListMissing = Schema
  BY DEF ListMissing
<1>4. schema = Schema => ListMissing = {}
  BY SchemaMembers DEF ListMissing
<1>5. engine = "postgresql" =>
        /\ schema' \in {{}, Schema} /\ rows' \in {{}, ReferenceTables}
        /\ ListMissing # {} => ListMissing = Schema
  BY <1>1, <1>3, <1>4 DEF Inv, AllOrNothing
<1>6. /\ schema' \subseteq Schema /\ rows' \subseteq schema' \cap ReferenceTables
      /\ "key_index" \in schema' => "external_tickets" \in schema'
      /\ disturbed' \in BOOLEAN
  BY <1>1, Stages
<1> QED
  BY <1>1, <1>2, <1>5, <1>6, Continues

\* The statements of a batch are among those that are left.
LEMMA BatchIsLeft ==
  ASSUME Inv, NEW o \in Runs, NEW batch \in Batches(o)
  PROVE  /\ batch \subseteq Schema
         /\ engine = "postgresql" => batch = run[o].todo
BY Stages DEF Batches, Due

LEMMA DropNextKeepsInv ==
  ASSUME Inv, NEW o \in Runs, DropNext(o)
  PROVE  Inv'
<1>1. PICK batch \in Batches(o) :
        IF batch \subseteq schema
          THEN /\ schema' = schema \ Dropped(batch)
               /\ rows' = rows \ batch
               /\ Continue(o, "drop", run[o].todo \ batch)
          ELSE Fail(o) /\ UNCHANGED <<schema, rows>>
  BY DEF DropNext
<1>2. run[o].stage = "drop" /\ UNCHANGED <<engine, disturbed>>
  BY DEF DropNext
<1>3. disturbed' \in BOOLEAN
  BY <1>2, Stages
<1>4. CASE ~(batch \subseteq schema)
  BY <1>1, <1>2, <1>3, <1>4, EndKeepsInv DEF Fail, Resting
<1>5. CASE batch \subseteq schema
  <2>1. /\ schema' = schema \ Dropped(batch)
        /\ rows' = rows \ batch
        /\ Continue(o, "drop", run[o].todo \ batch)
    BY <1>1, <1>5
  <2>2. /\ schema' \subseteq Schema
        /\ rows' \subseteq schema' \cap ReferenceTables
        /\ "key_index" \in schema' => "external_tickets" \in schema'
    BY <2>1, Stages DEF Dropped, ReferenceTables
  <2>3. ASSUME engine = "postgresql"
        PROVE  schema' = {} /\ rows' = {} /\ run[o].todo \ batch = {}
    <3>1. batch = run[o].todo /\ run[o].todo = Schema \ {"key_index"}
      BY <1>2, <2>3, BatchIsLeft DEF Inv, AllOrNothing
    <3>2. "external_tickets" \in batch /\ ReferenceTables \subseteq batch
      BY <3>1, SchemaMembers DEF ReferenceTables
    <3> QED
      BY <2>1, <3>1, <3>2, Stages DEF Dropped
  <2>4. run[o].todo \ batch \subseteq Schema
    BY Stages
  <2> HIDE DEF Continue
  <2> QED
    BY <1>2, <1>3, <2>1, <2>2, <2>3, <2>4, Continues
<1> QED
  BY <1>4, <1>5

LEMMA CreateNextKeepsInv ==
  ASSUME Inv, NEW o \in Runs, CreateNext(o)
  PROVE  Inv'
<1> DEFINE possible(batch) ==
      /\ batch \cap schema = {}
      /\ "key_index" \in batch => "external_tickets" \in schema \cup batch
<1>1. PICK batch \in Batches(o) :
        IF possible(batch)
          THEN /\ schema' = schema \cup batch
               /\ Continue(o, "create", run[o].todo \ batch)
          ELSE Fail(o) /\ UNCHANGED schema
  BY DEF CreateNext
<1>2. run[o].stage = "create" /\ UNCHANGED <<engine, rows, disturbed>>
  BY DEF CreateNext
<1>3. disturbed' \in BOOLEAN
  BY <1>2, Stages
<1>4. CASE ~possible(batch)
  BY <1>1, <1>2, <1>3, <1>4, EndKeepsInv DEF Fail, Resting
<1>5. CASE possible(batch)
  <2>1. /\ schema' = schema \cup batch
        /\ Continue(o, "create", run[o].todo \ batch)
    BY <1>1, <1>5
  <2>2. /\ schema' \subseteq Schema
        /\ rows' \subseteq schema' \cap ReferenceTables
        /\ "key_index" \in schema' => "external_tickets" \in schema'
    BY <1>2, <1>5, <2>1, BatchIsLeft, Stages
  <2>3. ASSUME engine = "postgresql"
        PROVE  /\ schema' = Schema /\ rows' \in {{}, ReferenceTables}
               /\ run[o].todo \ batch = {}
    <3>1. batch = run[o].todo /\ run[o].todo = Schema
      BY <1>2, <2>3, BatchIsLeft DEF Inv, AllOrNothing
    <3> QED
      BY <1>2, <2>1, <2>3, <3>1, Stages DEF Inv, AllOrNothing
  <2>4. run[o].todo \ batch \subseteq Schema
    BY Stages
  <2> QED
    BY <1>2, <1>3, <2>1, <2>2, <2>3, <2>4, Continues
<1> QED
  BY <1>4, <1>5

LEMMA SeedingKeepsInv ==
  ASSUME Inv, NEW o \in Runs, ReadUsers(o) \/ InsertReferenceData(o)
  PROVE  Inv'
<1>1. CASE ReadUsers(o)
  <2>1. CASE "users" \notin schema
    BY <1>1, <2>1, Stages, EndKeepsInv DEF ReadUsers, Fail, Resting
  <2>2. CASE "users" \in schema
    <3>1. PICK stage \in {"done", "insert"} : Goto(o, stage)
      BY <1>1, <2>2 DEF ReadUsers
    <3>2. stage \in Stage \ {"drop", "create"}
      BY DEF Stage, Resting
    <3>3. run[o].stage = "read_users" /\ UNCHANGED <<engine, schema, rows, disturbed>>
      BY <1>1 DEF ReadUsers
    <3> QED
      BY <3>1, <3>2, <3>3, GotoKeepsInv
  <2> QED
    BY <2>1, <2>2
<1>2. CASE InsertReferenceData(o)
  <2>1. /\ run[o].stage = "insert"
        /\ UNCHANGED <<engine, schema, disturbed>>
    BY <1>2 DEF InsertReferenceData
  <2>2. CASE ReferenceTables \subseteq schema /\ rows = {}
    <3>1. rows' = ReferenceTables /\ Goto(o, "done")
      BY <1>2, <2>2 DEF InsertReferenceData
    <3>2. "done" \in Stage \ {"drop", "create"}
      BY DEF Stage, Resting
    <3> QED
      BY <2>1, <2>2, <3>1, <3>2, GotoKeepsInv
  <2>3. CASE ~(ReferenceTables \subseteq schema /\ rows = {})
    <3>1. Fail(o) /\ rows' = rows
      BY <1>2, <2>3 DEF InsertReferenceData
    <3> QED
      BY <2>1, <3>1, Stages, EndKeepsInv DEF Fail, Resting
  <2> QED
    BY <2>2, <2>3
<1> QED
  BY <1>1, <1>2

LEMMA DieKeepsInv ==
  ASSUME Inv, NEW o \in Runs, Die(o)
  PROVE  Inv'
<1>1. disturbed' \in BOOLEAN
  BY Stages DEF Die
<1> QED
  BY <1>1, EndKeepsInv DEF Die, Resting

LEMMA InvHolds == Spec => []Inv
<1>1. Init => Inv
  <2> SUFFICES ASSUME Init PROVE Inv
    OBVIOUS
  <2>1. schema \in {{}, Schema} /\ rows = schema \cap ReferenceTables
    BY DEF Init
  <2>2. schema \subseteq Schema /\ rows \in {{}, ReferenceTables}
    BY <2>1, SchemaMembers DEF ReferenceTables
  <2>3. "key_index" \in schema => "external_tickets" \in schema
    BY <2>1, SchemaMembers
  <2>4. /\ run \in [Runs -> Progress]
        /\ \A o \in Runs : run[o].stage = "waiting" /\ run[o].todo = {}
    BY DEF Init, Progress, Kind, Stage, Resting
  <2>5. TypeOK
    BY <2>1, <2>2, <2>3, <2>4 DEF Init, TypeOK, Progress
  <2>6. AllOrNothing
    BY <2>1, <2>2, <2>4 DEF AllOrNothing
  <2> QED
    BY <2>4, <2>5, <2>6 DEF Inv, TypeInv
<1>2. Inv /\ [Next]_provisioningVars => Inv'
  <2> SUFFICES ASSUME Inv, [Next]_provisioningVars PROVE Inv'
    OBVIOUS
  <2>1. CASE Next
    <3>1. PICK o \in Runs :
            (\E kind \in Kinds : BeginRun(o, kind)) \/ Step(o) \/ Die(o)
      BY <2>1 DEF Next
    <3> QED
      BY <3>1, BeginRunKeepsInv, ListForDropKeepsInv, DropNextKeepsInv,
         ListForCreateKeepsInv, CreateNextKeepsInv, SeedingKeepsInv, DieKeepsInv
      DEF Step
  <2>2. CASE UNCHANGED provisioningVars
    BY <2>2 DEF provisioningVars, Inv, TypeInv, TypeOK, AllOrNothing, InProgress
  <2> QED
    BY <2>1, <2>2
<1> QED
  BY <1>1, <1>2, PTL DEF Spec

\* The tables and the progress of each run have the values of their types, and
\* an index is never without its table.
THEOREM ProvisioningTypeCorrect == Spec => []TypeOK
<1>1. Inv => TypeOK
  BY DEF Inv, TypeInv
<1> QED
  BY <1>1, InvHolds, PTL

\* With PostgreSQL the one question of seed_reference_data is always answered for
\* all four reference tables, whatever overlaps or dies at whatever point.
THEOREM TransactionsProtectSeeding == Spec => []TransactionsKeepItSeedable
<1>1. Inv => TransactionsKeepItSeedable
  BY DEF Inv, AllOrNothing, TransactionsKeepItSeedable, Seedable
<1> QED
  BY <1>1, InvHolds, PTL
-----------------------------------------------------------------------------
(* The steps of a run, with what they do to its progress.                  *)

LEMMA Order ==
  /\ \A s, u : Earlier(s, u) => ~Earlier(u, s)
  /\ \A s : Earlier(s, "key_index") => s \in {"users", "projects", "external_tickets"}
  /\ Earlier("users", "external_tickets") /\ Earlier("projects", "external_tickets")
  /\ Earlier("external_tickets", "key_index")
<1>1. DOMAIN CreationOrder = 1 .. 8
  BY DEF CreationOrder
<1>2. /\ CreationOrder[1] = "users" /\ CreationOrder[2] = "projects"
      /\ CreationOrder[3] = "external_tickets" /\ CreationOrder[4] = "key_index"
      /\ CreationOrder[5] = "project_memberships" /\ CreationOrder[6] = "documents"
      /\ CreationOrder[7] = "tasks" /\ CreationOrder[8] = "task_tables"
  BY DEF CreationOrder
<1>3. \A i \in 1 .. 8 : i \in {1, 2, 3, 4, 5, 6, 7, 8}
  OBVIOUS
<1>4. \A i, j \in 1 .. 8 : CreationOrder[i] = CreationOrder[j] => i = j
  BY <1>2, <1>3
<1>5. \A i \in 1 .. 8 : i < 4 => CreationOrder[i] \in {"users", "projects", "external_tickets"}
  BY <1>2, <1>3
<1> HIDE DEF CreationOrder
<1>6. ASSUME NEW s, NEW u, Earlier(s, u), Earlier(u, s)
      PROVE  FALSE
  <2>1. PICK i \in 1 .. 8, j \in 1 .. 8 :
          i < j /\ CreationOrder[i] = s /\ CreationOrder[j] = u
    BY <1>1, <1>6 DEF Earlier
  <2>2. PICK k \in 1 .. 8, l \in 1 .. 8 :
          k < l /\ CreationOrder[k] = u /\ CreationOrder[l] = s
    BY <1>1, <1>6 DEF Earlier
  <2>3. i = l /\ j = k
    BY <1>4, <2>1, <2>2
  <2> QED BY <2>1, <2>2, <2>3
<1>7. ASSUME NEW s, Earlier(s, "key_index")
      PROVE  s \in {"users", "projects", "external_tickets"}
  <2>1. PICK i \in 1 .. 8, j \in 1 .. 8 :
          i < j /\ CreationOrder[i] = s /\ CreationOrder[j] = "key_index"
    BY <1>1, <1>7 DEF Earlier
  <2>2. j = 4
    BY <1>2, <1>4, <2>1
  <2> QED BY <1>5, <2>1, <2>2
<1>8. \A i, j \in 1 .. 8 : i < j => Earlier(CreationOrder[i], CreationOrder[j])
  BY <1>1 DEF Earlier
<1> QED BY <1>2, <1>6, <1>7, <1>8

\* Run o goes on to `stage` with the statements `todo`; the others stay.
Moved(o, stage, todo) ==
  /\ run'[o].kind = run[o].kind
  /\ run'[o].stage = stage
  /\ run'[o].todo = todo
  /\ \A p \in Runs \ {o} : run'[p] = run[p]

ListsForDrop(o) ==
  /\ run[o].stage = "list_for_drop"
  /\ UNCHANGED <<schema, rows>>
  /\ Moved(o, IF schema \ {"key_index"} = {} THEN "list_for_create" ELSE "drop",
              schema \ {"key_index"})

ListsForCreate(o) ==
  /\ run[o].stage = "list_for_create"
  /\ UNCHANGED <<schema, rows>>
  /\ Moved(o, IF ListMissing = {} THEN After(o, "create") ELSE "create", ListMissing)

Drops(o, batch) ==
  /\ run[o].stage = "drop"
  /\ batch \subseteq schema
  /\ schema' = schema \ Dropped(batch)
  /\ rows' = rows \ batch
  /\ Moved(o, IF run[o].todo \ batch = {} THEN "list_for_create" ELSE "drop",
              run[o].todo \ batch)

Creatable(batch) ==
  /\ batch \cap schema = {}
  /\ "key_index" \in batch => "external_tickets" \in schema \cup batch

Creates(o, batch) ==
  /\ run[o].stage = "create"
  /\ Creatable(batch)
  /\ schema' = schema \cup batch
  /\ rows' = rows
  /\ Moved(o, IF run[o].todo \ batch = {} THEN After(o, "create") ELSE "create",
              run[o].todo \ batch)

Reads(o) ==
  /\ run[o].stage = "read_users"
  /\ "users" \in schema
  /\ UNCHANGED <<schema, rows>>
  /\ Moved(o, IF "users" \in rows THEN "done" ELSE "insert", {})

Inserts(o) ==
  /\ run[o].stage = "insert"
  /\ ReferenceTables \subseteq schema /\ rows = {}
  /\ schema' = schema /\ rows' = ReferenceTables
  /\ Moved(o, "done", {})

\* What o is about to do cannot fail, unless another run comes first.
Able(o) ==
  \/ run[o].stage \in {"list_for_drop", "list_for_create"}
  \/ run[o].stage = "drop" /\ run[o].todo \subseteq schema
  \/ run[o].stage = "create" /\ Creatable(run[o].todo)
  \/ run[o].stage = "read_users" /\ "users" \in schema
  \/ /\ run[o].stage = "insert"
     /\ ReferenceTables \subseteq schema /\ rows = {}

Ends(o, stage) ==
  /\ InProgress(o)
  /\ UNCHANGED <<schema, rows>>
  /\ Moved(o, stage, {})

\* o fails with the statement that is next.
Fails(o) ==
  /\ Ends(o, "failed")
  /\ ~Able(o)
  /\ run[o].stage = "create" => \E batch \in Batches(o) : ~Creatable(batch)

LEMMA GoesTo ==
  ASSUME Inv, NEW o \in Runs, NEW stage
  PROVE  /\ \A todo : GotoWith(o, stage, todo) => Moved(o, stage, todo)
         /\ Goto(o, stage) /\ run[o].stage \notin {"drop", "create"}
              => Moved(o, stage, {})
<1>1. run \in [Runs -> Progress]
  BY Stages
<1>2. ASSUME NEW todo, GotoWith(o, stage, todo)
      PROVE  Moved(o, stage, todo)
  BY <1>1, <1>2 DEF GotoWith, Moved, Progress
<1>3. ASSUME Goto(o, stage), run[o].stage \notin {"drop", "create"}
      PROVE  Moved(o, stage, {})
  <2>1. run[o].todo = {}
    BY <1>3 DEF Inv, TypeInv, TypeOK
  <2> QED BY <1>1, <1>3, <2>1 DEF Goto, Moved, Progress
<1> QED BY <1>2, <1>3

LEMMA BatchIsDue ==
  ASSUME Inv, NEW o \in Runs, NEW batch \in Batches(o)
  PROVE  /\ batch \subseteq run[o].todo
         /\ engine = "postgresql" => batch = run[o].todo
         /\ engine = "sqlite" => \E s \in Due(o) : batch = {s}
  BY DEF Batches, Due

LEMMA StepIs ==
  ASSUME Inv, NEW o \in Runs, Step(o)
  PROVE  /\ UNCHANGED <<engine, disturbed>>
         /\ \/ ListsForDrop(o) \/ ListsForCreate(o) \/ Reads(o) \/ Inserts(o)
            \/ \E batch \in Batches(o) : Drops(o, batch) \/ Creates(o, batch)
            \/ Fails(o)
<1>1. CASE ListForDrop(o)
  BY <1>1, GoesTo DEF ListForDrop, Continue, After, ListsForDrop
<1>2. CASE ListForCreate(o)
  BY <1>2, GoesTo DEF ListForCreate, Continue, ListsForCreate
<1>3. CASE ReadUsers(o)
  <2>1. CASE "users" \notin schema
    BY <1>3, <2>1, GoesTo DEF ReadUsers, Fail, Fails, Ends, Able, InProgress, Resting
  <2>2. CASE "users" \in schema
    BY <1>3, <2>2, GoesTo DEF ReadUsers, Reads
  <2> QED BY <2>1, <2>2
<1>4. CASE InsertReferenceData(o)
  <2>1. CASE ReferenceTables \subseteq schema /\ rows = {}
    BY <1>4, <2>1, GoesTo DEF InsertReferenceData, Inserts
  <2>2. CASE ~(ReferenceTables \subseteq schema /\ rows = {})
    BY <1>4, <2>2, GoesTo
       DEF InsertReferenceData, Fail, Fails, Ends, Able, InProgress, Resting
  <2> QED BY <2>1, <2>2
<1>5. CASE DropNext(o)
  <2>1. PICK batch \in Batches(o) :
          IF batch \subseteq schema
            THEN /\ schema' = schema \ Dropped(batch)
                 /\ rows' = rows \ batch
                 /\ Continue(o, "drop", run[o].todo \ batch)
            ELSE Fail(o) /\ UNCHANGED <<schema, rows>>
    BY <1>5 DEF DropNext
  <2>2. run[o].stage = "drop" /\ UNCHANGED <<engine, disturbed>>
    BY <1>5 DEF DropNext
  <2>3. CASE batch \subseteq schema
    BY <2>1, <2>2, <2>3, GoesTo DEF Continue, After, Drops
  <2>4. CASE ~(batch \subseteq schema)
    <3>1. ~(run[o].todo \subseteq schema)
      BY <2>4, BatchIsDue
    <3> QED BY <2>1, <2>2, <2>4, <3>1, GoesTo
            DEF Fail, Fails, Ends, Able, InProgress, Resting
  <2> QED BY <2>3, <2>4
<1>6. CASE CreateNext(o)
  <2>1. PICK batch \in Batches(o) :
          IF Creatable(batch)
            THEN /\ schema' = schema \cup batch
                 /\ Continue(o, "create", run[o].todo \ batch)
            ELSE Fail(o) /\ UNCHANGED schema
    BY <1>6 DEF CreateNext, Creatable
  <2>2. run[o].stage = "create" /\ UNCHANGED <<engine, rows, disturbed>>
    BY <1>6 DEF CreateNext
  <2>3. CASE Creatable(batch)
    BY <2>1, <2>2, <2>3, GoesTo DEF Continue, Creates
  <2>4. CASE ~Creatable(batch)
    <3>1. batch \subseteq run[o].todo
      BY BatchIsDue
    <3>2. ASSUME Creatable(run[o].todo)
          PROVE  FALSE
      <4>1. "key_index" \in batch /\ "external_tickets" \notin schema \cup batch
        BY <2>4, <3>1, <3>2 DEF Creatable
      <4>2. "external_tickets" \in run[o].todo \ batch
        BY <3>1, <3>2, <4>1 DEF Creatable
      <4>3. engine = "sqlite" /\ "key_index" \in Due(o)
        BY <4>1, <4>2, BatchIsDue DEF Inv, TypeInv, TypeOK
      <4> QED BY <2>2, <4>2, <4>3, Order DEF Due
    <3> QED BY <2>1, <2>2, <2>4, <3>2, GoesTo
            DEF Fail, Fails, Ends, Able, InProgress, Resting
  <2> QED BY <2>3, <2>4
<1> QED BY <1>1, <1>2, <1>3, <1>4, <1>5, <1>6 DEF Step
\* The beginning of a run, and its death.
LEMMA BeginIs ==
  ASSUME Inv, NEW o \in Runs, NEW kind \in Kinds, BeginRun(o, kind)
  PROVE  /\ UNCHANGED <<engine, schema, rows>>
         /\ run[o].stage = "waiting"
         /\ run'[o].kind = kind /\ run'[o].todo = {}
         /\ run'[o].stage = IF kind = "reset" THEN "list_for_drop"
                                              ELSE "list_for_create"
         /\ \A p \in Runs \ {o} : run'[p] = run[p]
<1>1. run \in [Runs -> Progress] /\ run[o].todo = {}
  BY Stages DEF BeginRun, Inv, TypeInv, TypeOK
<1> QED BY <1>1 DEF BeginRun, Progress

LEMMA DieIs ==
  ASSUME Inv, NEW o \in Runs, Die(o)
  PROVE  /\ engine' = engine
         /\ Ends(o, "dead")
         /\ disturbed' = (disturbed \/ (engine = "sqlite" /\ run[o].kind = "reset"))
  BY GoesTo DEF Die, Ends

\* A step of a run, its death, its beginning, or none of these.
LEMMA NextIs ==
  ASSUME [Next]_provisioningVars
  PROVE  \/ UNCHANGED provisioningVars
         \/ \E o \in Runs : \/ \E kind \in Kinds : BeginRun(o, kind)
                            \/ Step(o)
                            \/ Die(o)
  BY DEF Next

-----------------------------------------------------------------------------
(* The unique index.  A run that has created the table of the tickets owes *)
(* the index, and its next statement creates it.                           *)

OwesIndex(o) ==
  /\ run[o].stage = "create"
  /\ "key_index" \in run[o].todo
  /\ "external_tickets" \notin run[o].todo

IndexInv ==
  /\ \A o \in Runs :
       /\ run[o].stage = "create" /\ "external_tickets" \in run[o].todo
            => "key_index" \in run[o].todo
       /\ run[o].stage = "drop" => "key_index" \notin run[o].todo
       /\ OwesIndex(o) => run[o].todo \cap {"users", "projects"} = {}
  /\ "external_tickets" \in schema /\ "key_index" \notin schema =>
       /\ engine = "sqlite"
       /\ \E o \in Runs : run[o].stage = "dead" \/ OwesIndex(o)

LEMMA IndexMoves ==
  ASSUME IndexInv, NEW o \in Runs, engine' = engine,
         \A p \in Runs \ {o} : run'[p] = run[p],
         /\ run'[o].stage = "create" /\ "external_tickets" \in run'[o].todo
              => "key_index" \in run'[o].todo
         /\ run'[o].stage = "drop" => "key_index" \notin run'[o].todo
         /\ OwesIndex(o)' => run'[o].todo \cap {"users", "projects"} = {},
         /\ "external_tickets" \in schema' /\ "key_index" \notin schema' =>
              \/ /\ engine = "sqlite"
                 /\ OwesIndex(o)' \/ run'[o].stage = "dead"
              \/ /\ "external_tickets" \in schema /\ "key_index" \notin schema
                 /\ ~OwesIndex(o) /\ run[o].stage # "dead"
  PROVE  IndexInv'
<1>1. \A p \in Runs \ {o} : OwesIndex(p)' <=> OwesIndex(p)
  BY DEF OwesIndex
<1>2. ASSUME NEW p \in Runs
      PROVE  /\ run'[p].stage = "create" /\ "external_tickets" \in run'[p].todo
                  => "key_index" \in run'[p].todo
             /\ run'[p].stage = "drop" => "key_index" \notin run'[p].todo
             /\ OwesIndex(p)' => run'[p].todo \cap {"users", "projects"} = {}
  BY <1>1, <1>2 DEF IndexInv
<1>3. ASSUME "external_tickets" \in schema', "key_index" \notin schema'
      PROVE  /\ engine' = "sqlite"
             /\ \E p \in Runs : run'[p].stage = "dead" \/ OwesIndex(p)'
  <2>1. CASE engine = "sqlite" /\ (OwesIndex(o)' \/ run'[o].stage = "dead")
    BY <2>1
  <2>2. CASE /\ "external_tickets" \in schema /\ "key_index" \notin schema
             /\ ~OwesIndex(o) /\ run[o].stage # "dead"
    <3>1. PICK p \in Runs : run[p].stage = "dead" \/ OwesIndex(p)
      BY <2>2 DEF IndexInv
    <3>2. engine = "sqlite"
      BY <2>2 DEF IndexInv
    <3> QED BY <1>1, <2>2, <3>1, <3>2
  <2> QED BY <1>3, <2>1, <2>2
<1> QED BY <1>2, <1>3 DEF IndexInv

LEMMA StepKeepsIndex ==
  ASSUME Inv, IndexInv, NEW o \in Runs, Step(o)
  PROVE  IndexInv'
<1>0. engine' = engine /\ run[o].todo \subseteq Schema
  BY StepIs, Stages
<1>1. CASE ListsForDrop(o)
  BY <1>0, <1>1, IndexMoves DEF ListsForDrop, Moved, OwesIndex
<1>2. CASE ListsForCreate(o)
  <2>1. "external_tickets" \in ListMissing <=> "key_index" \in ListMissing
    BY SchemaMembers DEF ListMissing
  <2> QED BY <1>0, <1>2, <2>1, IndexMoves DEF ListsForCreate, Moved, OwesIndex, After
<1>3. CASE Reads(o) \/ Inserts(o)
  BY <1>0, <1>3, IndexMoves DEF Reads, Inserts, Moved, OwesIndex
<1>4. ASSUME NEW batch \in Batches(o), Drops(o, batch)
      PROVE  IndexInv'
  <2>1. "key_index" \notin run[o].todo /\ batch \subseteq run[o].todo
    BY <1>4, BatchIsDue DEF Drops, IndexInv
  <2>2. "external_tickets" \in schema' /\ "key_index" \notin schema' =>
          "external_tickets" \in schema /\ "key_index" \notin schema
    BY <1>4, <2>1 DEF Drops, Dropped
  <2> QED BY <1>0, <1>4, <2>1, <2>2, IndexMoves DEF Drops, Moved, OwesIndex
<1>5. ASSUME NEW batch \in Batches(o), Creates(o, batch)
      PROVE  IndexInv'
  <2>1. /\ run[o].stage = "create" /\ rows' = rows
        /\ schema' = schema \cup batch
        /\ "key_index" \in batch => "external_tickets" \in schema \cup batch
        /\ run'[o].todo = run[o].todo \ batch
        /\ run'[o].todo = {} => run'[o].stage \in {"done", "read_users"}
        /\ run'[o].todo # {} => run'[o].stage = "create"
        /\ \A p \in Runs \ {o} : run'[p] = run[p]
    BY <1>5 DEF Creates, Creatable, Moved, After
  <2>2. CASE engine = "postgresql"
    <3>1. batch = Schema /\ run[o].todo = Schema
      BY <2>1, <2>2, BatchIsDue DEF Inv, AllOrNothing
    <3>2. "key_index" \in schema' /\ run'[o].todo = {}
      BY <2>1, <3>1, SchemaMembers
    <3> QED BY <1>0, <2>1, <3>2, IndexMoves DEF OwesIndex
  <2>3. CASE engine = "sqlite"
    <3>1. PICK s \in Due(o) : batch = {s}
      BY <2>3, BatchIsDue
    <3>2. /\ s \in run[o].todo
          /\ \A u \in run[o].todo \ {s} : Earlier(s, u)
      BY <2>1, <3>1 DEF Due
    <3>3. CASE s = "external_tickets"
      <4>1. "key_index" \in run'[o].todo /\ run'[o].stage = "create"
        BY <2>1, <3>1, <3>2, <3>3 DEF IndexInv
      <4>2. run'[o].todo \cap {"users", "projects"} = {}
        BY <2>1, <3>1, <3>2, <3>3, Order
      <4>3. OwesIndex(o)'
        BY <2>1, <3>1, <3>3, <4>1 DEF OwesIndex
      <4> QED BY <1>0, <2>1, <2>3, <4>1, <4>2, <4>3, IndexMoves
    <3>4. CASE s = "key_index"
      <4>1. "key_index" \in schema' /\ "key_index" \notin run'[o].todo
        BY <2>1, <3>1, <3>4
      <4>2. "external_tickets" \notin run[o].todo
        BY <3>2, <3>4, Order
      <4> QED BY <1>0, <2>1, <4>1, <4>2, IndexMoves DEF OwesIndex
    <3>5. CASE s \notin {"external_tickets", "key_index"}
      <4>1. ~OwesIndex(o)
        <5>1. OwesIndex(o) => Earlier(s, "key_index") /\ s \notin {"users", "projects"}
          BY <3>2, <3>5 DEF OwesIndex, IndexInv
        <5> QED BY <3>5, <5>1, Order
      <4>2. ~OwesIndex(o)'
        BY <2>1, <3>1, <3>5, <4>1 DEF OwesIndex
      <4>3. "external_tickets" \in schema' /\ "key_index" \notin schema' =>
              "external_tickets" \in schema /\ "key_index" \notin schema
        BY <2>1, <3>1, <3>5
      <4>4. "external_tickets" \in run'[o].todo => "key_index" \in run'[o].todo
        BY <2>1, <3>1, <3>5 DEF IndexInv
      <4> QED BY <1>0, <2>1, <4>1, <4>2, <4>3, <4>4, IndexMoves
    <3> QED BY <3>3, <3>4, <3>5
  <2> QED BY <2>2, <2>3 DEF Inv, TypeInv, TypeOK
<1>6. CASE Fails(o)
  <2>1. /\ UNCHANGED <<schema, rows>>
        /\ run'[o].stage = "failed" /\ run'[o].todo = {}
        /\ \A p \in Runs \ {o} : run'[p] = run[p]
        /\ run[o].stage # "dead"
    BY <1>6 DEF Fails, Ends, Moved, InProgress, Resting
  <2>2. "external_tickets" \in schema /\ "key_index" \notin schema => ~OwesIndex(o)
    <3> SUFFICES ASSUME "external_tickets" \in schema, "key_index" \notin schema,
                        OwesIndex(o)
                 PROVE  FALSE
      OBVIOUS
    <3>1. PICK batch \in Batches(o) : ~Creatable(batch)
      BY <1>6 DEF Fails, OwesIndex
    <3>2. CASE engine = "postgresql"
      BY <3>2 DEF OwesIndex, Inv, AllOrNothing, Schema, CreationOrder
    <3>3. CASE engine = "sqlite"
      <4>1. PICK s \in Due(o) : batch = {s}
        BY <3>3, BatchIsDue
      <4>2. s = "key_index" \/ Earlier(s, "key_index")
        BY <4>1 DEF Due, OwesIndex
      <4>3. s \in run[o].todo
        BY <4>1 DEF Due
      <4>4. s = "key_index"
        BY <4>2, <4>3, Order DEF OwesIndex, IndexInv
      <4> QED BY <3>1, <4>1, <4>4 DEF Creatable
    <3> QED BY <3>2, <3>3 DEF Inv, TypeInv, TypeOK
  <2> QED BY <1>0, <2>1, <2>2, IndexMoves DEF OwesIndex
<1> QED BY <1>1, <1>2, <1>3, <1>4, <1>5, <1>6, StepIs

LEMMA NextKeepsIndex ==
  Inv /\ IndexInv /\ [Next]_provisioningVars => IndexInv'
<1> SUFFICES ASSUME Inv, IndexInv, [Next]_provisioningVars PROVE IndexInv'
  OBVIOUS
<1>1. CASE UNCHANGED provisioningVars
  BY <1>1 DEF provisioningVars, IndexInv, OwesIndex
<1>2. ASSUME NEW o \in Runs, NEW kind \in Kinds, BeginRun(o, kind)
      PROVE  IndexInv'
  BY <1>2, BeginIs, IndexMoves DEF OwesIndex
<1>3. ASSUME NEW o \in Runs, Step(o) PROVE IndexInv'
  BY <1>3, StepKeepsIndex
<1>4. ASSUME NEW o \in Runs, Die(o) PROVE IndexInv'
  <2>1. /\ UNCHANGED <<engine, schema>> /\ run[o].stage # "dead"
        /\ run'[o].stage = "dead"
        /\ \A p \in Runs \ {o} : run'[p] = run[p]
    BY <1>4, DieIs DEF Ends, Moved, InProgress, Resting
  <2>2. "external_tickets" \in schema /\ "key_index" \notin schema => engine = "sqlite"
    BY DEF IndexInv
  <2> QED BY <2>1, <2>2, IndexMoves DEF OwesIndex
<1> QED BY <1>1, <1>2, <1>3, <1>4, NextIs

LEMMA IndexHolds == Spec => []IndexInv
<1>1. Init => IndexInv
  <2> SUFFICES ASSUME Init PROVE IndexInv
    OBVIOUS
  <2>1. "external_tickets" \in schema => "key_index" \in schema
    BY SchemaMembers DEF Init
  <2>2. \A o \in Runs : run[o].stage = "waiting" /\ ~OwesIndex(o)
    BY DEF Init, OwesIndex
  <2> QED BY <2>1, <2>2 DEF IndexInv
<1> QED BY <1>1, InvHolds, NextKeepsIndex, PTL DEF Spec

\* KeyIndexIsLostOnlyByDeath: whatever number of runs overlap and fail in
\* whatever order, the tables are without the unique index on the idempotency
\* key only if a process died between the two statements of create_all.
THEOREM IndexIsLostOnlyByDeath == Spec => []KeyIndexIsLostOnlyByDeath
<1>1. IndexInv => KeyIndexIsLostOnlyByDeath
  BY DEF IndexInv, KeyIndexIsLostOnlyByDeath, Quiet, InProgress, Resting, OwesIndex
<1> QED BY <1>1, IndexHolds, PTL

-----------------------------------------------------------------------------
(* SQLite, while no reset was disturbed: a reset that is in progress is    *)
(* alone, and tables are only added by everyone else.                      *)

Tables == Schema \ {"key_index"}
Dropping == {"list_for_drop", "drop"}

ResetsAlone ==
  \A o \in Runs : InProgress(o) /\ run[o].kind = "reset" =>
    \A p \in Runs \ {o} : ~InProgress(p)

Undisturbed ==
  /\ ResetsAlone
  /\ Seedable \/ \E o \in Runs : run[o].stage \in Dropping
  /\ \A o \in Runs :
       /\ run[o].stage = "drop" => run[o].todo = schema \ {"key_index"}
       /\ run[o].stage = "create" => Tables \subseteq schema \cup run[o].todo
       /\ run[o].stage \in {"read_users", "insert"} => Tables \subseteq schema

AloneInv ==
  /\ \A o \in Runs : run[o].stage \in Dropping => run[o].kind = "reset"
  /\ engine = "sqlite" /\ ~disturbed => Undisturbed

\* Nobody else is in progress while a run drops tables.
LEMMA DropperAlone ==
  ASSUME AloneInv, Undisturbed, NEW o \in Runs, run[o].stage \in Dropping
  PROVE  \A p \in Runs \ {o} : ~InProgress(p) /\ run[p].stage \in Resting
  BY DEF AloneInv, Undisturbed, ResetsAlone, InProgress, Dropping, Resting

LEMMA AloneMoves ==
  ASSUME Inv, Inv', AloneInv, Undisturbed, NEW o \in Runs,
         InProgress(o), run'[o].kind = run[o].kind,
         \A p \in Runs \ {o} : run'[p] = run[p],
         Tables \cap schema \subseteq schema' \/ run[o].stage \in Dropping,
         Seedable' \/ run'[o].stage \in Dropping \/
           (rows' = rows /\ run[o].stage \notin Dropping),
         run'[o].stage = "drop" => run'[o].todo = schema' \ {"key_index"},
         run'[o].stage = "create" => Tables \subseteq schema' \cup run'[o].todo,
         run'[o].stage \in {"read_users", "insert"} => Tables \subseteq schema',
         run'[o].stage \in Dropping => run[o].stage \in Dropping
  PROVE  Undisturbed' /\ \A p \in Runs : run'[p].stage \in Dropping => run'[p].kind = "reset"
<1>1. \A p \in Runs : InProgress(p)' => InProgress(p) /\ run'[p].kind = run[p].kind
  BY DEF InProgress
<1>2. ResetsAlone'
  BY <1>1 DEF Undisturbed, ResetsAlone
<1>3. \A p \in Runs : run'[p].stage \in Dropping => run'[p].kind = "reset"
  BY DEF AloneInv
<1>4. Seedable' \/ \E p \in Runs : run'[p].stage \in Dropping
  BY DEF Undisturbed, Seedable
<1>5. ASSUME NEW p \in Runs \ {o}
      PROVE  /\ run'[p].stage = "drop" => run'[p].todo = schema' \ {"key_index"}
             /\ run'[p].stage = "create" => Tables \subseteq schema' \cup run'[p].todo
             /\ run'[p].stage \in {"read_users", "insert"} => Tables \subseteq schema'
  <2>1. CASE run[o].stage \in Dropping
    BY <2>1, DropperAlone DEF Resting
  <2>2. CASE run[o].stage \notin Dropping
    <3>1. run[p].stage # "drop"
      BY <1>5, DropperAlone, <2>2 DEF Dropping
    <3> QED BY <2>2, <3>1 DEF Undisturbed, Tables
  <2> QED BY <2>1, <2>2
<1> QED BY <1>2, <1>3, <1>4, <1>5 DEF Undisturbed
LEMMA StepKeepsAlone ==
  ASSUME Inv, Inv', AloneInv, Undisturbed, engine = "sqlite", NEW o \in Runs, Step(o)
  PROVE  Undisturbed'
         /\ \A p \in Runs : run'[p].stage \in Dropping => run'[p].kind = "reset"
<1> USE DEF Dropping
<1>0. /\ "external_tickets" \in Tables /\ ReferenceTables \subseteq Tables
      /\ Tables \subseteq Schema /\ "key_index" \notin Tables
      /\ \A s \in Schema : s \in Tables \/ s = "key_index"
  BY SchemaMembers DEF Tables, ReferenceTables
<1>1. CASE ListsForDrop(o)
  <2>1. schema \ {"key_index"} = {} => rows = {}
    BY Stages DEF ReferenceTables
  <2> QED BY <1>1, <2>1, AloneMoves
          DEF ListsForDrop, Moved, InProgress, Resting, Seedable
<1>2. CASE ListsForCreate(o)
  <2>1. Tables \subseteq schema \cup ListMissing
    BY <1>0 DEF ListMissing
  <2>2. After(o, "create") \in {"done", "read_users"}
    BY DEF After
  <2> QED BY <1>2, <2>1, <2>2, AloneMoves
          DEF ListsForCreate, Moved, InProgress, Resting
<1>3. CASE Reads(o)
  <2>1. Tables \subseteq schema
    BY <1>3 DEF Reads, Undisturbed
  <2> QED BY <1>3, <2>1, AloneMoves DEF Reads, Moved, InProgress, Resting
<1>4. CASE Inserts(o)
  BY <1>4, AloneMoves DEF Inserts, Moved, InProgress, Resting, Seedable
<1>5. ASSUME NEW batch \in Batches(o), Drops(o, batch)
      PROVE  Undisturbed'
             /\ \A p \in Runs : run'[p].stage \in Dropping => run'[p].kind = "reset"
  <2>1. run[o].todo = schema \ {"key_index"} /\ batch \subseteq run[o].todo
    BY <1>5, BatchIsDue DEF Drops, Undisturbed
  <2>2. run[o].todo \ batch = schema' \ {"key_index"}
    BY <1>5, <2>1 DEF Drops, Dropped
  <2>3. run[o].todo \ batch = {} => rows' = {}
    BY <1>5, <2>1, <2>2, Stages, <1>0 DEF Drops
  <2> QED BY <1>5, <2>2, <2>3, AloneMoves
          DEF Drops, Moved, InProgress, Resting, Seedable
<1>6. ASSUME NEW batch \in Batches(o), Creates(o, batch)
      PROVE  Undisturbed'
             /\ \A p \in Runs : run'[p].stage \in Dropping => run'[p].kind = "reset"
  <2>1. Tables \subseteq schema' \cup (run[o].todo \ batch)
    BY <1>6 DEF Creates, Undisturbed
  <2>2. After(o, "create") \in {"done", "read_users"}
    BY DEF After
  <2> QED BY <1>6, <2>1, <2>2, AloneMoves
          DEF Creates, Moved, InProgress, Resting
<1>7. CASE Fails(o)
  <2>1. /\ UNCHANGED <<schema, rows>> /\ run'[o].stage = "failed"
        /\ run'[o].kind = run[o].kind /\ InProgress(o)
        /\ \A p \in Runs \ {o} : run'[p] = run[p]
    BY <1>7 DEF Fails, Ends, Moved
  <2>2. run[o].stage \notin Dropping
    BY <1>7 DEF Fails, Able, Undisturbed
  <2> QED BY <2>1, <2>2, AloneMoves
<1> QED BY <1>1, <1>2, <1>3, <1>4, <1>5, <1>6, <1>7, StepIs

LEMMA NextKeepsAlone ==
  Inv /\ Inv' /\ AloneInv /\ [Next]_provisioningVars => AloneInv'
<1> SUFFICES ASSUME Inv, Inv', AloneInv, [Next]_provisioningVars PROVE AloneInv'
  OBVIOUS
<1>1. CASE UNCHANGED provisioningVars
  BY <1>1 DEF provisioningVars, AloneInv, Undisturbed, ResetsAlone, InProgress, Seedable
<1>2. ASSUME NEW o \in Runs, NEW kind \in Kinds, BeginRun(o, kind)
      PROVE  AloneInv'
  <2>1. /\ UNCHANGED <<engine, schema, rows>>
        /\ run[o].stage = "waiting"
        /\ run'[o].kind = kind /\ run'[o].todo = {}
        /\ run'[o].stage = IF kind = "reset" THEN "list_for_drop"
                                             ELSE "list_for_create"
        /\ \A p \in Runs \ {o} : run'[p] = run[p]
    BY <1>2, BeginIs
  <2>2. \A p \in Runs : run'[p].stage \in Dropping => run'[p].kind = "reset"
    BY <2>1 DEF AloneInv, Dropping
  <2>3. ASSUME engine = "sqlite", ~disturbed' PROVE Undisturbed'
    <3> DEFINE others == {p \in Runs : InProgress(p)}
    <3>1. ~InProgress(o)
      BY <2>1 DEF InProgress, Resting
    <3>2. \A p \in Runs \ {o} : InProgress(p)' <=> InProgress(p)
      BY <2>1 DEF InProgress
    <3>3. CASE kind = "reset" /\ others = {}
      <4>1. \A p \in Runs \ {o} : run'[p].stage \in Resting
        BY <2>1, <3>3 DEF InProgress
      <4>2. ResetsAlone'
        BY <4>1 DEF ResetsAlone, InProgress
      <4>3. run'[o].stage \in Dropping /\ run'[o].stage = "list_for_drop"
        BY <2>1, <3>3 DEF Dropping
      <4>4. \A p \in Runs : run'[p].stage \notin {"drop", "create", "read_users", "insert"}
        BY <4>1, <4>3 DEF Resting
      <4> QED BY <4>2, <4>3, <4>4 DEF Undisturbed
    <3>4. CASE ~(kind = "reset" /\ others = {})
      <4>1. /\ ~disturbed
            /\ \A p \in others : kind # "reset" /\ run[p].kind # "reset"
        BY <1>2, <2>3, <3>4 DEF BeginRun
      <4>2. kind # "reset"
        BY <3>4, <4>1
      <4>3. Undisturbed
        BY <2>3, <4>1 DEF AloneInv
      <4>4. ResetsAlone'
        BY <2>1, <3>2, <4>1, <4>2 DEF ResetsAlone
      <4>5. \A p \in Runs : run[p].stage \notin Dropping
        BY <2>1, <4>1 DEF AloneInv, InProgress, Dropping, Resting
      <4>6. Seedable'
        BY <2>1, <4>3, <4>5 DEF Undisturbed, Seedable
      <4>7. run'[o].stage = "list_for_create"
        BY <2>1, <4>2
      <4> QED BY <2>1, <4>3, <4>4, <4>6, <4>7 DEF Undisturbed
    <3> QED BY <3>3, <3>4
  <2> QED BY <2>1, <2>2, <2>3 DEF AloneInv
<1>3. ASSUME NEW o \in Runs, Step(o) PROVE AloneInv'
  <2>1. UNCHANGED <<engine, disturbed>>
    BY <1>3, StepIs
  <2>2. CASE engine = "sqlite" /\ ~disturbed
    BY <1>3, <2>1, <2>2, StepKeepsAlone DEF AloneInv
  <2>3. CASE ~(engine = "sqlite" /\ ~disturbed)
    <3>1. \A p \in Runs : run'[p].stage \in Dropping => run'[p].kind = "reset"
      BY <1>3, StepIs DEF AloneInv, Dropping, ListsForDrop, ListsForCreate, Reads,
         Inserts, Drops, Creates, Fails, Ends, Moved, After
    <3> QED BY <2>1, <2>3, <3>1 DEF AloneInv
  <2> QED BY <2>2, <2>3
<1>4. ASSUME NEW o \in Runs, Die(o) PROVE AloneInv'
  <2>1. /\ UNCHANGED <<engine, schema, rows>> /\ InProgress(o)
        /\ run'[o].stage = "dead" /\ run'[o].kind = run[o].kind
        /\ \A p \in Runs \ {o} : run'[p] = run[p]
        /\ disturbed' = (disturbed \/ (engine = "sqlite" /\ run[o].kind = "reset"))
    BY <1>4, DieIs DEF Ends, Moved
  <2>2. \A p \in Runs : run'[p].stage \in Dropping => run'[p].kind = "reset"
    BY <2>1 DEF AloneInv, Dropping
  <2>3. ASSUME engine = "sqlite", ~disturbed' PROVE Undisturbed'
    <3>1. ~disturbed /\ run[o].stage \notin Dropping
      BY <2>1, <2>3 DEF AloneInv
    <3> QED BY <2>1, <2>3, <3>1, AloneMoves DEF AloneInv, Dropping
  <2> QED BY <2>1, <2>2, <2>3 DEF AloneInv
<1> QED BY <1>1, <1>2, <1>3, <1>4, NextIs

LEMMA AloneHolds == Spec => [](Inv /\ AloneInv)
<1>1. Init => AloneInv
  <2> SUFFICES ASSUME Init PROVE AloneInv
    OBVIOUS
  <2>1. \A o \in Runs : run[o].stage = "waiting"
    BY DEF Init
  <2>2. rows = {} \/ rows = ReferenceTables
    BY SchemaMembers DEF Init, ReferenceTables
  <2> QED BY <2>1, <2>2
          DEF AloneInv, Undisturbed, ResetsAlone, InProgress, Resting, Dropping, Seedable
<1> QED BY <1>1, InvHolds, NextKeepsAlone, PTL DEF Spec

\* SeedableAtRest: once nothing is in progress, all four reference tables are
\* filled or none is, so that the next start-up seeds what is to be seeded;
\* on SQLite unless a reset died or overlapped with another run and no reset has
\* begun alone since.
THEOREM SeedingIsRightAtRest == Spec => []SeedableAtRest
<1>1. Inv /\ AloneInv => SeedableAtRest
  <2> SUFFICES ASSUME Inv, AloneInv, Quiet, ~disturbed PROVE Seedable
    BY DEF SeedableAtRest
  <2>1. CASE engine = "postgresql"
    BY <2>1 DEF Inv, AllOrNothing, Seedable
  <2>2. CASE engine = "sqlite"
    BY <2>2 DEF AloneInv, Undisturbed, Quiet, InProgress, Resting, Dropping
  <2> QED BY <2>1, <2>2 DEF Inv, TypeInv, TypeOK
<1> QED BY <1>1, AloneHolds, PTL
\* SuccessMeansReady: a run that reports success while nothing else is in
\* progress leaves every table, and the reference data if it is to seed,
\* although it looks only once for the tables and only for one user; on SQLite
\* unless a reset died or overlapped and no reset has begun alone since.
THEOREM SuccessIsReady == Spec => SuccessMeansReady
<1>1. ASSUME Inv, Inv', AloneInv, NEW o \in Runs, Step(o), FinishesLast(o), ~disturbed
      PROVE  /\ Schema \ {"key_index"} \subseteq schema'
             /\ run[o].kind # "bare_start" => rows' = ReferenceTables
  <2>1. /\ run'[o].stage = "done"
        /\ \A p \in Runs \ {o} : run[p].stage \notin Dropping
    <3>1. \A p \in Runs \ {o} : run'[p] = run[p]
      BY <1>1, StepIs DEF ListsForDrop, ListsForCreate, Reads, Inserts, Drops,
         Creates, Fails, Ends, Moved
    <3> QED BY <1>1, <3>1 DEF FinishesLast, Dropping, Resting
  <2>2. Seedable \/ run[o].stage \in Dropping
    BY <1>1, <2>1 DEF Inv, TypeInv, TypeOK, AllOrNothing, Seedable, AloneInv, Undisturbed
  <2>3. engine = "sqlite" => Undisturbed
    BY <1>1 DEF AloneInv
  <2>4. engine = "postgresql" => schema \in {{}, Schema} /\ schema' \in {{}, Schema}
    BY <1>1, StepIs DEF Inv, AllOrNothing
  <2>5. engine \in {"sqlite", "postgresql"}
    BY <1>1 DEF Inv, TypeInv, TypeOK
  <2>6. "users" \in ReferenceTables /\ ReferenceTables \subseteq Schema
    BY SchemaMembers DEF ReferenceTables
  <2>7. CASE Reads(o)
    <3>1. rows = ReferenceTables /\ rows' = rows /\ schema' = schema
      BY <2>1, <2>2, <2>7 DEF Reads, Moved, Seedable, Dropping
    <3>2. Tables \subseteq schema
      BY <2>3, <2>4, <2>5, <2>7 DEF Reads, Undisturbed, Tables
    <3> QED BY <3>1, <3>2 DEF Tables
  <2>8. CASE Inserts(o)
    <3>1. Tables \subseteq schema
      BY <2>3, <2>4, <2>5, <2>6, <2>8 DEF Inserts, Undisturbed, Tables
    <3> QED BY <2>8, <3>1 DEF Inserts, Tables
  <2>9. CASE ListsForCreate(o)
    <3>1. ListMissing = {} /\ run[o].kind = "bare_start" /\ schema' = schema
      BY <2>1, <2>9 DEF ListsForCreate, Moved, After
    <3> QED BY <3>1 DEF ListMissing
  <2>10. ASSUME NEW batch \in Batches(o), Creates(o, batch)
         PROVE  Schema \ {"key_index"} \subseteq schema' /\ run[o].kind = "bare_start"
    <3>1. /\ run[o].stage = "create" /\ run[o].todo \ batch = {}
          /\ run[o].kind = "bare_start" /\ schema' = schema \cup batch
      BY <2>1, <2>10 DEF Creates, Moved, After
    <3>2. CASE engine = "sqlite"
      BY <2>3, <3>1, <3>2 DEF Undisturbed, Tables
    <3>3. CASE engine = "postgresql"
      <4>1. run[o].todo = Schema
        BY <1>1, <3>1, <3>3 DEF Inv, AllOrNothing
      <4> QED BY <3>1, <4>1
    <3> QED BY <2>5, <3>1, <3>2, <3>3
  <2>11. ~ListsForDrop(o) /\ ~Fails(o) /\ \A batch \in Batches(o) : ~Drops(o, batch)
    BY <2>1 DEF ListsForDrop, Fails, Ends, Drops, Moved
  <2> QED BY <1>1, <2>7, <2>8, <2>9, <2>10, <2>11, StepIs
<1>2. Inv /\ Inv' /\ AloneInv /\ [Next]_provisioningVars =>
        [\A o \in Runs :
           FinishesLast(o) /\ ~disturbed
           => /\ Schema \ {"key_index"} \subseteq schema'
              /\ run[o].kind # "bare_start" => rows' = ReferenceTables
        ]_provisioningVars
  <2> SUFFICES ASSUME Inv, Inv', AloneInv, [Next]_provisioningVars,
                      NEW o \in Runs, FinishesLast(o), ~disturbed
               PROVE  /\ Schema \ {"key_index"} \subseteq schema'
                      /\ run[o].kind # "bare_start" => rows' = ReferenceTables
    OBVIOUS
  <2>1. run'[o].stage = "done" /\ run[o].stage # "done"
    BY DEF FinishesLast, InProgress, Resting
  <2>2. ~UNCHANGED provisioningVars
    BY <2>1 DEF provisioningVars
  <2>3. PICK p \in Runs : Step(p) \/ Die(p) \/ \E kind \in Kinds : BeginRun(p, kind)
    BY <2>2, NextIs
  <2>4. p = o
    <3> SUFFICES ASSUME p # o PROVE run'[o] = run[o]
      BY <2>1
    <3> QED BY <2>3, StepIs, BeginIs, DieIs DEF ListsForDrop, ListsForCreate, Reads,
         Inserts, Drops, Creates, Fails, Ends, Moved
  <2>5. Step(o)
    BY <2>1, <2>3, <2>4, BeginIs, DieIs DEF Ends, Moved
  <2> QED BY <1>1, <2>5
<1> QED BY <1>2, AloneHolds, PTL DEF Spec, SuccessMeansReady
-----------------------------------------------------------------------------
(* SQLite, while no reset was disturbed: runs that create the same tables  *)
(* do so in the same order, so that the one that is ahead of the others    *)
(* finds nothing in its way.                                               *)

SameOrder ==
  \A o \in Runs : run[o].stage = "create" =>
    \A s \in run[o].todo \ {"key_index"}, u \in run[o].todo :
      s \notin schema /\ Earlier(s, u) => u \notin schema

OneOwner ==
  \A o \in Runs : OwesIndex(o) =>
    /\ "external_tickets" \in schema
    /\ \A p \in Runs \ {o} : ~OwesIndex(p)

OrderInv == engine = "sqlite" /\ ~disturbed => SameOrder /\ OneOwner

\* Steps that create nothing.
LEMMA OrderStays ==
  ASSUME SameOrder, OneOwner, NEW o \in Runs, schema' = schema,
         run'[o].stage # "create",
         \A p \in Runs \ {o} : run'[p] = run[p]
  PROVE  SameOrder' /\ OneOwner'
<1>1. \A p \in Runs : run'[p].stage = "create" => p # o
  OBVIOUS
<1>2. \A p \in Runs : OwesIndex(p)' => p # o /\ OwesIndex(p)
  BY DEF OwesIndex
<1> QED BY <1>1, <1>2 DEF SameOrder, OneOwner

LEMMA NoCreatorNoOrder ==
  ASSUME \A p \in Runs : run[p].stage # "create"
  PROVE  SameOrder /\ OneOwner
  BY DEF SameOrder, OneOwner, OwesIndex

LEMMA StepKeepsOrder ==
  ASSUME Inv, AloneInv, Undisturbed, IndexInv, SameOrder, OneOwner,
         engine = "sqlite", NEW o \in Runs, Step(o)
  PROVE  SameOrder' /\ OneOwner'
<1>1. CASE ListsForDrop(o) \/ Reads(o) \/ Inserts(o) \/ Fails(o)
  BY <1>1, OrderStays DEF ListsForDrop, Reads, Inserts, Fails, Ends, Moved
<1>2. CASE ListsForCreate(o)
  <2>1. /\ schema' = schema /\ run'[o].todo = ListMissing
        /\ \A p \in Runs \ {o} : run'[p] = run[p]
    BY <1>2 DEF ListsForCreate, Moved
  <2>2. ListMissing \cap schema = {}
    BY Stages DEF ListMissing
  <2>3. "external_tickets" \in ListMissing <=> "key_index" \in ListMissing
    BY SchemaMembers DEF ListMissing
  <2>4. \A p \in Runs : OwesIndex(p)' => p # o /\ OwesIndex(p)
    BY <2>1, <2>3 DEF OwesIndex
  <2>5. OneOwner'
    BY <2>1, <2>4 DEF OneOwner
  <2>6. SameOrder'
    BY <2>1, <2>2 DEF SameOrder
  <2> QED BY <2>5, <2>6
<1>3. ASSUME NEW batch \in Batches(o), Drops(o, batch)
      PROVE  SameOrder' /\ OneOwner'
  <2>1. \A p \in Runs : run'[p].stage # "create"
    BY <1>3, DropperAlone DEF Drops, Moved, Dropping, Resting
  <2> QED BY <2>1 DEF SameOrder, OneOwner, OwesIndex
<1>4. ASSUME NEW batch \in Batches(o), Creates(o, batch)
      PROVE  SameOrder' /\ OneOwner'
  <2>1. PICK s \in Due(o) : batch = {s}
    BY BatchIsDue
  <2>2. /\ run[o].stage = "create"
        /\ s \notin schema /\ schema' = schema \cup {s}
        /\ s \in run[o].todo /\ run'[o].todo = run[o].todo \ {s}
        /\ \A u \in run[o].todo \ {s} : Earlier(s, u)
        /\ \A p \in Runs \ {o} : run'[p] = run[p]
    BY <1>4, <2>1 DEF Creates, Creatable, Moved, Due
  <2>3. OwesIndex(o)' => s = "external_tickets" \/ OwesIndex(o)
    BY <2>2 DEF OwesIndex
  <2>4. \A p \in Runs \ {o} : OwesIndex(p)' <=> OwesIndex(p)
    BY <2>2 DEF OwesIndex
  <2>5. OneOwner'
    <3>1. OwesIndex(o)' => \A p \in Runs \ {o} : ~OwesIndex(p)
      BY <2>2, <2>3 DEF OneOwner
    <3> QED BY <2>2, <2>3, <2>4, <3>1 DEF OneOwner
  <2>6. SameOrder'
    <3> SUFFICES ASSUME NEW p \in Runs, run'[p].stage = "create",
                        NEW v \in run'[p].todo \ {"key_index"},
                        NEW u \in run'[p].todo,
                        v \notin schema', Earlier(v, u), u \in schema'
                 PROVE  FALSE
      BY DEF SameOrder
    <3>1. run[p].stage = "create" /\ v \in run[p].todo /\ u \in run[p].todo
      BY <2>2
    <3>2. u = s
      BY <2>2, <3>1 DEF SameOrder
    <3>3. p # o
      BY <2>2, <3>2
    <3>4. v \in Tables /\ v \notin schema /\ v # s
      BY <2>2, <3>1, Stages DEF Tables
    <3>5. v \in run[o].todo
      BY <2>2, <3>4 DEF Undisturbed
    <3>6. Earlier(s, v)
      BY <2>2, <3>4, <3>5
    <3> QED BY <3>2, <3>6, Order
  <2> QED BY <2>5, <2>6
<1> QED BY <1>1, <1>2, <1>3, <1>4, StepIs

LEMMA NextKeepsOrder ==
  Inv /\ AloneInv /\ IndexInv /\ OrderInv /\ [Next]_provisioningVars => OrderInv'
<1> SUFFICES ASSUME Inv, AloneInv, IndexInv, OrderInv, [Next]_provisioningVars
             PROVE  OrderInv'
  OBVIOUS
<1>1. CASE UNCHANGED provisioningVars
  BY <1>1 DEF provisioningVars, OrderInv, SameOrder, OneOwner, OwesIndex
<1>2. ASSUME NEW o \in Runs, NEW kind \in Kinds, BeginRun(o, kind) PROVE OrderInv'
  <2>1. /\ UNCHANGED <<engine, schema>> /\ run'[o].stage # "create"
        /\ run[o].stage = "waiting"
        /\ \A p \in Runs \ {o} : run'[p] = run[p]
    BY <1>2, BeginIs
  <2>2. CASE disturbed
    <3>1. ~disturbed' => \A p \in Runs : ~InProgress(p)
      BY <1>2, <2>2 DEF BeginRun
    <3>2. ~disturbed' => \A p \in Runs : run'[p].stage # "create"
      BY <2>1, <3>1 DEF InProgress, Resting
    <3> QED BY <3>2 DEF OrderInv, SameOrder, OneOwner, OwesIndex
  <2>3. CASE ~disturbed
    BY <2>1, <2>3, OrderStays DEF OrderInv
  <2> QED BY <2>2, <2>3
<1>3. ASSUME NEW o \in Runs, Step(o) PROVE OrderInv'
  <2>1. UNCHANGED <<engine, disturbed>>
    BY <1>3, StepIs
  <2> QED BY <1>3, <2>1, StepKeepsOrder DEF OrderInv, AloneInv
<1>4. ASSUME NEW o \in Runs, Die(o) PROVE OrderInv'
  BY <1>4, DieIs, OrderStays DEF OrderInv, Ends, Moved
<1> QED BY <1>1, <1>2, <1>3, <1>4, NextIs

-----------------------------------------------------------------------------
(* Of the runs that have begun, one can go on without failing, or has      *)
(* succeeded or died: a run is only stopped by another that gets ahead.    *)

Ahead(o) == run[o].stage \in {"done", "dead"} \/ Able(o)

LeaderInv ==
  /\ engine = "postgresql" \/ ~disturbed
  /\ \E o \in Runs : run[o].stage # "waiting"
  => \E o \in Runs : Ahead(o)

\* A statement that creates s leaves o or its predecessor ahead.
LEMMA CreatorLeads ==
  ASSUME Inv, Inv', AloneInv, AloneInv', IndexInv, IndexInv', OrderInv, OrderInv',
         engine = "sqlite", ~disturbed, UNCHANGED <<engine, disturbed>>,
         NEW o \in Runs, NEW batch \in Batches(o), Creates(o, batch),
         NEW q \in Runs, Ahead(q)
  PROVE  Ahead(o)' \/ Ahead(q)'
<1>1. PICK s \in Due(o) : batch = {s}
  BY BatchIsDue
<1>2. /\ run[o].stage = "create"
      /\ s \notin schema /\ schema' = schema \cup {s} /\ rows' = rows
      /\ s \in run[o].todo /\ run'[o].todo = run[o].todo \ {s}
      /\ \A u \in run[o].todo \ {s} : Earlier(s, u)
      /\ \A p \in Runs \ {o} : run'[p] = run[p]
      /\ run'[o].todo = {} => run'[o].stage \in {"done", "read_users"}
      /\ run'[o].todo # {} => run'[o].stage = "create"
  BY <1>1 DEF Creates, Creatable, Moved, Due, After
<1>3. Undisturbed' /\ SameOrder /\ OneOwner /\ OneOwner'
  BY DEF AloneInv, OrderInv
<1>4. CASE run'[o].todo = {}
  <2>1. "users" \in Tables
    BY SchemaMembers DEF Tables
  <2>2. run'[o].stage = "read_users" => "users" \in schema'
    BY <1>3, <2>1 DEF Undisturbed
  <2> QED BY <1>2, <1>4, <2>2 DEF Ahead, Able
<1>5. CASE run'[o].todo # {} /\ run'[o].todo \cap schema' = {}
  <2>1. "key_index" \in run'[o].todo /\ "external_tickets" \notin run'[o].todo
          => "external_tickets" \in schema'
    BY <1>2, <1>3, <1>5 DEF OneOwner, OwesIndex
  <2> QED BY <1>2, <1>5, <2>1 DEF Ahead, Able, Creatable
<1>6. CASE run'[o].todo \cap schema' # {}
  <2>1. PICK u \in run[o].todo : u # s /\ u \in schema
    BY <1>2, <1>6
  <2>2. s = "key_index"
    BY <1>2, <1>3, <2>1 DEF SameOrder
  <2>3. OwesIndex(o)
    BY <1>2, <2>2, Order DEF OwesIndex
  <2>4. q # o
    BY <1>2, <2>1 DEF Ahead, Able, Creatable
  <2>5. ASSUME run[q].stage = "create" PROVE "key_index" \notin run[q].todo
    <3>1. run[q].todo \cap schema = {}
      BY <2>5 DEF Ahead, Able, Creatable
    <3>2. "external_tickets" \in schema /\ ~OwesIndex(q)
      BY <1>3, <2>3, <2>4 DEF OneOwner
    <3> QED BY <2>5, <3>1, <3>2 DEF OwesIndex
  <2>6. run'[q] = run[q]
    BY <1>2, <2>4
  <2> QED BY <1>2, <2>2, <2>5, <2>6 DEF Ahead, Able, Creatable
<1> QED BY <1>4, <1>5, <1>6
LEMMA StepKeepsLeader ==
  ASSUME Inv, Inv', AloneInv, AloneInv', IndexInv, IndexInv', OrderInv, OrderInv',
         LeaderInv, engine = "postgresql" \/ ~disturbed, NEW o \in Runs, Step(o)
  PROVE  \E p \in Runs : Ahead(p)'
<1>0. /\ UNCHANGED <<engine, disturbed>> /\ InProgress(o)
      /\ engine \in {"sqlite", "postgresql"}
      /\ engine = "sqlite" => Undisturbed /\ Undisturbed'
  BY StepIs DEF Inv, TypeInv, TypeOK, AloneInv, Step, ListForDrop, DropNext,
     ListForCreate, CreateNext, ReadUsers, InsertReferenceData, InProgress, Resting
<1>1. PICK q \in Runs : Ahead(q)
  BY <1>0 DEF LeaderInv, InProgress, Resting
<1>2. CASE ListsForDrop(o)
  BY <1>2 DEF ListsForDrop, Moved, Ahead, Able
<1>3. CASE ListsForCreate(o)
  <2>1. ListMissing = {} => "users" \in schema
    BY SchemaMembers DEF ListMissing
  <2>2. Creatable(ListMissing)
    <3>1. ListMissing \cap schema = {}
      BY Stages DEF ListMissing
    <3>2. "key_index" \in ListMissing => "external_tickets" \in ListMissing
      BY SchemaMembers DEF ListMissing
    <3> QED BY <3>1, <3>2 DEF Creatable
  <2>3. After(o, "create") \in {"done", "read_users"}
    BY DEF After
  <2>4. /\ schema' = schema /\ run'[o].todo = ListMissing
        /\ run'[o].stage = IF ListMissing = {} THEN After(o, "create") ELSE "create"
    BY <1>3 DEF ListsForCreate, Moved
  <2>5. Ahead(o)'
    BY <2>1, <2>2, <2>3, <2>4 DEF Ahead, Able, Creatable
  <2> QED BY <2>5
<1>4. CASE Reads(o)
  <2>1. "users" \notin rows => rows = {}
    <3>1. Seedable
      <4>1. ASSUME NEW p \in Runs, run[p].stage \in Dropping, engine = "sqlite"
            PROVE  FALSE
        <5>1. p # o
          BY <1>4, <4>1 DEF Reads, Dropping
        <5> QED BY <1>0, <4>1, <5>1, DropperAlone
      <4> QED BY <1>0, <4>1 DEF Inv, AllOrNothing, Seedable, Undisturbed
    <3> QED BY <3>1 DEF Seedable, ReferenceTables
  <2>2. ReferenceTables \subseteq schema
    <3>1. ReferenceTables \subseteq Tables /\ Tables \subseteq Schema
      BY SchemaMembers DEF ReferenceTables, Tables
    <3>2. CASE engine = "sqlite"
      BY <1>0, <1>4, <3>1, <3>2 DEF Reads, Undisturbed
    <3>3. CASE engine = "postgresql"
      BY <1>4, <3>1, <3>3 DEF Reads, Inv, AllOrNothing
    <3> QED BY <1>0, <3>2, <3>3
  <2>3. Ahead(o)'
    BY <1>4, <2>1, <2>2 DEF Reads, Moved, Ahead, Able
  <2> QED BY <2>3
<1>5. CASE Inserts(o)
  BY <1>5 DEF Inserts, Moved, Ahead
<1>6. ASSUME NEW batch \in Batches(o), Drops(o, batch)
      PROVE  \E p \in Runs : Ahead(p)'
  <2>1. engine = "postgresql" => run[o].todo \ batch = {}
    BY BatchIsDue
  <2>2. run'[o].stage = "drop" => run'[o].todo \subseteq schema'
    BY <1>0, <1>6, <2>1 DEF Drops, Moved, Undisturbed
  <2>3. Ahead(o)'
    BY <1>6, <2>2 DEF Drops, Moved, Ahead, Able
  <2> QED BY <2>3
<1>7. ASSUME NEW batch \in Batches(o), Creates(o, batch)
      PROVE  \E p \in Runs : Ahead(p)'
  <2>1. CASE engine = "sqlite"
    BY <1>0, <1>1, <1>7, <2>1, CreatorLeads
  <2>2. CASE engine = "postgresql"
    <3>1. batch = Schema /\ run[o].todo = Schema
      BY <1>7, <2>2, BatchIsDue DEF Creates, Inv, AllOrNothing
    <3>2. "users" \in schema' /\ run'[o].stage \in {"done", "read_users"}
      BY <1>7, <3>1, SchemaMembers DEF Creates, Moved, After
    <3>3. Ahead(o)'
      BY <3>2 DEF Ahead, Able
    <3> QED BY <3>3
  <2> QED BY <1>0, <2>1, <2>2
<1>8. CASE Fails(o)
  <2>1. q # o
    BY <1>0, <1>1, <1>8 DEF Fails, Ahead, InProgress, Resting
  <2>2. UNCHANGED <<schema, rows>> /\ run'[q] = run[q]
    BY <1>8, <2>1 DEF Fails, Ends, Moved
  <2>3. Ahead(q)'
    BY <1>1, <2>2 DEF Ahead, Able, Creatable
  <2> QED BY <2>3
<1> QED BY <1>2, <1>3, <1>4, <1>5, <1>6, <1>7, <1>8, StepIs

LEMMA NextKeepsLeader ==
  /\ Inv /\ AloneInv /\ IndexInv /\ OrderInv /\ LeaderInv
  /\ Inv' /\ AloneInv' /\ IndexInv' /\ OrderInv'
  /\ [Next]_provisioningVars
  => LeaderInv'
<1> SUFFICES ASSUME Inv, AloneInv, IndexInv, OrderInv, LeaderInv,
                    Inv', AloneInv', IndexInv', OrderInv', [Next]_provisioningVars
             PROVE  LeaderInv'
  OBVIOUS
<1>1. CASE UNCHANGED provisioningVars
  BY <1>1 DEF provisioningVars, LeaderInv, Ahead, Able, Creatable
<1>2. ASSUME NEW o \in Runs, NEW kind \in Kinds, BeginRun(o, kind) PROVE LeaderInv'
  <2>1. Ahead(o)'
    BY <1>2, BeginIs DEF Ahead, Able
  <2> QED BY <2>1 DEF LeaderInv
<1>3. ASSUME NEW o \in Runs, Step(o) PROVE LeaderInv'
  <2>1. UNCHANGED <<engine, disturbed>>
    BY <1>3, StepIs
  <2>2. engine = "postgresql" \/ ~disturbed => \E p \in Runs : Ahead(p)'
    BY <1>3, StepKeepsLeader
  <2> QED BY <2>1, <2>2 DEF LeaderInv
<1>4. ASSUME NEW o \in Runs, Die(o) PROVE LeaderInv'
  <2>1. Ahead(o)'
    BY <1>4, DieIs DEF Ahead, Ends, Moved
  <2> QED BY <2>1 DEF LeaderInv
<1> QED BY <1>1, <1>2, <1>3, <1>4, NextIs

-----------------------------------------------------------------------------
(* What disturbed a reset.                                                 *)

\* A reset that died, or was not the only run.
Entangled(o) ==
  /\ run[o].kind = "reset"
  /\ run[o].stage # "waiting"
  /\ run[o].stage = "dead" \/ \E p \in Runs \ {o} : run[p].stage # "waiting"

CulpritInv == disturbed => engine = "sqlite" /\ \E o \in Runs : Entangled(o)

\* A run that has begun does not begin again, and one that died stays dead.
LEMMA EntangledStays ==
  ASSUME NEW o \in Runs, NEW q \in Runs, Entangled(q),
         \A p \in Runs \ {o} : run'[p] = run[p],
         run'[o].stage # "waiting",
         run[o].stage # "waiting" => run'[o].kind = run[o].kind,
         run[o].stage # "dead"
  PROVE  Entangled(q)'
<1>1. /\ run'[q].kind = "reset" /\ run'[q].stage # "waiting"
      /\ run[q].stage = "dead" => run'[q].stage = "dead"
  BY DEF Entangled
<1>2. \A p \in Runs : run[p].stage # "waiting" => run'[p].stage # "waiting"
  OBVIOUS
<1> QED BY <1>1, <1>2 DEF Entangled

LEMMA NextKeepsCulprit ==
  Inv /\ CulpritInv /\ [Next]_provisioningVars => CulpritInv'
<1> SUFFICES ASSUME Inv, CulpritInv, [Next]_provisioningVars PROVE CulpritInv'
  OBVIOUS
<1>1. CASE UNCHANGED provisioningVars
  BY <1>1 DEF provisioningVars, CulpritInv, Entangled
<1>2. ASSUME NEW o \in Runs, NEW kind \in Kinds, BeginRun(o, kind), disturbed'
      PROVE  engine' = "sqlite" /\ \E q \in Runs : Entangled(q)'
  <2>1. /\ engine' = engine /\ run[o].stage = "waiting"
        /\ run'[o].kind = kind /\ run'[o].stage \in {"list_for_drop", "list_for_create"}
        /\ \A p \in Runs \ {o} : run'[p] = run[p]
    BY <1>2, BeginIs
  <2>2. CASE disturbed
    <3>1. PICK q \in Runs : Entangled(q)
      BY <2>2 DEF CulpritInv
    <3> QED BY <2>1, <2>2, <3>1, EntangledStays DEF CulpritInv
  <2>3. CASE ~disturbed
    <3>1. /\ engine = "sqlite"
          /\ \E p \in Runs : InProgress(p) /\ "reset" \in {kind, run[p].kind}
      BY <1>2, <2>3 DEF BeginRun
    <3>2. PICK p \in Runs : InProgress(p) /\ "reset" \in {kind, run[p].kind}
      BY <3>1
    <3>3. p # o /\ run[p].stage # "waiting"
      BY <2>1, <3>2 DEF InProgress, Resting
    <3>4. Entangled(o)' \/ Entangled(p)'
      BY <2>1, <3>2, <3>3 DEF Entangled
    <3> QED BY <2>1, <3>1, <3>4
  <2> QED BY <2>2, <2>3
<1>3. ASSUME NEW o \in Runs, Step(o) \/ Die(o), disturbed'
      PROVE  engine' = "sqlite" /\ \E q \in Runs : Entangled(q)'
  <2>1. /\ engine' = engine /\ InProgress(o)
        /\ run'[o].kind = run[o].kind /\ run'[o].stage # "waiting"
        /\ \A p \in Runs \ {o} : run'[p] = run[p]
    BY <1>3, StepIs, DieIs
    DEF ListsForDrop, ListsForCreate, Reads, Inserts, Drops, Creates, Fails, Ends,
        Moved, After, InProgress, Resting
  <2>2. CASE disturbed
    <3>1. PICK q \in Runs : Entangled(q)
      BY <2>2 DEF CulpritInv
    <3>2. run[o].stage \notin {"waiting", "dead"}
      BY <2>1 DEF InProgress, Resting
    <3> QED BY <2>1, <2>2, <3>1, <3>2, EntangledStays DEF CulpritInv
  <2>3. CASE ~disturbed
    <3>1. /\ engine = "sqlite" /\ run[o].kind = "reset" /\ run'[o].stage = "dead"
      BY <1>3, <2>1, <2>3, StepIs, DieIs DEF Ends, Moved
    <3>2. Entangled(o)'
      BY <2>1, <3>1 DEF Entangled
    <3> QED BY <2>1, <3>1, <3>2
  <2> QED BY <2>2, <2>3
<1> QED BY <1>1, <1>2, <1>3, NextIs DEF CulpritInv

\* AllFailOnlyAroundReset: however many start-ups and resets get into each
\* other's way, on PostgreSQL they never all fail, and on SQLite they do only if
\* two failed and one of these was a reset.
THEOREM AllFailNeedsReset == Spec => []AllFailOnlyAroundReset
<1>1. Init => OrderInv /\ LeaderInv /\ CulpritInv
  <2> SUFFICES ASSUME Init PROVE OrderInv /\ LeaderInv /\ CulpritInv
    OBVIOUS
  <2>1. \A o \in Runs : run[o].stage = "waiting"
    BY DEF Init
  <2> QED BY <2>1, NoCreatorNoOrder DEF Init, OrderInv, LeaderInv, CulpritInv
<1>2. Inv /\ LeaderInv /\ CulpritInv => AllFailOnlyAroundReset
  <2> SUFFICES ASSUME Inv, LeaderInv, CulpritInv,
                      \E o \in Runs : run[o].stage = "failed",
                      \A o \in Runs : run[o].stage \in {"waiting", "failed"}
               PROVE  /\ engine = "sqlite"
                      /\ \E o, p \in Runs :
                           /\ o # p
                           /\ run[o].stage = "failed" /\ run[o].kind = "reset"
                           /\ run[p].stage = "failed"
    BY DEF AllFailOnlyAroundReset
  <2>1. \A o \in Runs : ~Ahead(o)
    BY DEF Ahead, Able
  <2>2. disturbed
    BY <2>1 DEF LeaderInv, Inv, TypeInv, TypeOK
  <2> QED BY <2>2 DEF CulpritInv, Entangled
<1> QED BY <1>1, <1>2, AloneHolds, IndexHolds, NextKeepsOrder, NextKeepsLeader,
           NextKeepsCulprit, PTL
        DEF Spec
=============================================================================
