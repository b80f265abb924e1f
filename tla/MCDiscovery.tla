------------------------------ MODULE MCDiscovery ------------------------------
(***************************************************************************)
(* Discovery for TLC: the Discovery and two observers whose prefixes are   *)
(* longer than its own.  Hosts are interchangeable, and so are resolvers.  *)
(***************************************************************************)
EXTENDS Discovery, TLC

CONSTANTS Low, High, LowKey, HighKey

\* Attached last, with MinLen 2, the Discovery leaves two prefixes that overlap.
Prefixes == Disc :> <<"s">> @@ Low :> <<"s", "0">> @@ High :> <<"s", "9">>

Names == LowKey :> <<"s", "0">> @@ HighKey :> <<"s", "9">>
         @@ [k \in Keys \ {LowKey, HighKey} |-> <<"s", "5">>]

Symmetry == Permutations(Hosts) \cup Permutations(Resolvers)
=================================================================================
