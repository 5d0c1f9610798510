-------------------------- MODULE MCWorkspaceReset --------------------------
(***************************************************************************)
(* WorkspaceReset with the members of MCTaskWorkflow.                      *)
(***************************************************************************)
EXTENDS WorkspaceReset, MCTaskWorkflow
=============================================================================
