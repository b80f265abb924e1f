-------------------------------- MODULE Registry --------------------------------
(***************************************************************************)
(* What a Discovery, or any other reader of the keys under a service's     *)
(* prefix, can rely on (etcdutil/register.go against discovery.go): keys   *)
(* come, come back and go, one of them at a time, and for no reason a      *)
(* reader can see.  Module Registrar implements it; module Discovery       *)
(* builds on it.                                                           *)
(***************************************************************************)
CONSTANT Keys  \* keys that services register, one for each RegisterService

VARIABLE registered  \* the keys that are in etcd

Init == registered \in SUBSET Keys

Registers(k) == registered' = registered \cup {k}

Leaves(k) == k \in registered /\ registered' = registered \ {k}

Next == \E k \in Keys : Registers(k) \/ Leaves(k)

Spec == Init /\ [][Next]_registered
=================================================================================
