------------------------------ MODULE MCRegistrar ------------------------------
(***************************************************************************)
(* Registrar for TLC.  No symmetry: the run checks liveness.               *)
(***************************************************************************)
EXTENDS Registrar
=================================================================================
