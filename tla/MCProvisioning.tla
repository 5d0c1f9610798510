--------------------------- MODULE MCProvisioning ---------------------------
(***************************************************************************)
(* Provisioning with three runs that may overlap.                          *)
(***************************************************************************)
EXTENDS Provisioning, TLC

RunSymmetry == Permutations(Runs)
=============================================================================
