------------------------------- MODULE MCConfigure -------------------------------
(***************************************************************************)
(* Configure for TLC.  Calls, closers and namespaces are interchangeable.  *)
(***************************************************************************)
EXTENDS Configure, TLC

Symmetry == Permutations(Calls) \cup Permutations(Closers) \cup Permutations(Namespaces)
=================================================================================
