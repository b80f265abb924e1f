------------------------------ MODULE MCFileDriver ------------------------------
(***************************************************************************)
(* FileDriver for TLC.  Paths, keys and timers are interchangeable.        *)
(***************************************************************************)
EXTENDS FileDriver, TLC

Symmetry == Permutations(Paths) \cup Permutations(Keys) \cup Permutations(Timers)
=================================================================================
