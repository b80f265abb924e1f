-------------------------------- MODULE MCEngine --------------------------------
(***************************************************************************)
(* Engine for TLC.  No middleware, one, a Use of two above a Use of one,   *)
(* UseCors on either side of a Use, two of UseCors in both orders, and     *)
(* three levels.  Listed lets one origin of two read.                      *)
(***************************************************************************)
EXTENDS Engine

CONSTANTS Listed, Open, Friend

MCChains ==
  {<<>>, <<1>>, <<2, 1>>, <<Listed, 2>>, <<1, Listed, 2>>, <<1, 1, 2>>,
   <<Open, Listed, 1>>, <<Listed, 1, Open>>}

MCAllowOrigins == [c \in Configs |-> IF c = Listed THEN {Friend} ELSE {}]
=================================================================================
