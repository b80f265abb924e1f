------------------------------ MODULE MCEtcdDriver ------------------------------
(***************************************************************************)
(* EtcdDriver for TLC.  No symmetry: the main run checks liveness.         *)
(***************************************************************************)
EXTENDS EtcdDriver
=================================================================================
