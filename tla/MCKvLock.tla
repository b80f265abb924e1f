-------------------------------- MODULE MCKvLock --------------------------------
(***************************************************************************)
(* KvLock for TLC.  No symmetry: the run checks liveness.                  *)
(***************************************************************************)
EXTENDS KvLock
=================================================================================
