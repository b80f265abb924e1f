-------------------------------- MODULE MCFields --------------------------------
(***************************************************************************)
(* Fields for TLC: loaders are interchangeable, and so are goroutines.     *)
(***************************************************************************)
EXTENDS Fields, TLC

Symmetry == Permutations(Loaders) \cup Permutations(Goroutines)
=================================================================================
