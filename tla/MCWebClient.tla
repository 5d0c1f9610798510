---------------------------- MODULE MCWebClient -----------------------------
(***************************************************************************)
(* WebClient with the members of MCTaskWorkflow.                           *)
(***************************************************************************)
EXTENDS WebClient, MCTaskWorkflow
=============================================================================
