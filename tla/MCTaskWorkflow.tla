--------------------------- MODULE MCTaskWorkflow ---------------------------
(***************************************************************************)
(* Small instances of TaskWorkflow.  Users, projects and memberships are   *)
(* drawn from those of seed.py: alice leads the project orchard, viewer    *)
(* only reads it, and mallory reads lab, a project of another tenant.      *)
(***************************************************************************)
EXTENDS TaskWorkflow, TLC

CONSTANTS alice, viewer, mallory, orchard, lab

MCUserTenant == [u \in Users |-> IF u = mallory THEN "other" ELSE "arch"]
MCProjectTenant == [p \in Projects |-> IF p = lab THEN "other" ELSE "arch"]

Reader(u, p) == [user |-> u, project |-> p, can_read |-> TRUE,
                 can_write |-> FALSE, can_approve |-> FALSE]
Seeded ==
  {[Reader(alice, orchard) EXCEPT !.can_write = TRUE, !.can_approve = TRUE],
   Reader(viewer, orchard), Reader(mallory, lab)}
MCMemberships == {m \in Seeded : m.user \in Users /\ m.project \in Projects}

WorkerSymmetry == Permutations(Workers)
TaskAndWorkerSymmetry == Permutations(Workers) \cup Permutations(Tasks)
FullSymmetry == TaskAndWorkerSymmetry \cup Permutations(Contents)
=============================================================================
