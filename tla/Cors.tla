---------------------------------- MODULE Cors ----------------------------------
(***************************************************************************)
(* srvhttp/cors.go: what UseCors adds to the headers of a response.  Of    *)
(* these the two that depend on who asks are kept: the origin that may     *)
(* read the response, and Vary, which tells a cache that others may be     *)
(* told something else.  An origin is a member of Origins, or Same for a   *)
(* request that names none or its own host.                                *)
(***************************************************************************)
EXTENDS Naturals, Sequences

CONSTANTS
  Configs,       \* the CorsConfig of each call of UseCors
  Everyone,      \* those with AllowAllOrigins, or "*" among their AllowOrigins
  AllowOrigins,  \* the origins that the patterns of each of the others match
  Origins,
  Same, Anyone, Nobody

ASSUME CorsAssumption ==
  /\ Everyone \subseteq Configs
  /\ AllowOrigins \in [Configs -> SUBSET Origins]
  /\ {Same, Anyone, Nobody} \cap Origins = {}
  /\ Anyone # Nobody

Headers == [allow : Origins \cup {Anyone, Nobody}, vary : BOOLEAN]
NoHeaders == [allow |-> Nobody, vary |-> FALSE]

notCors(origin) == origin = Same

validateOrigin(c, origin) == c \in Everyone \/ origin \in AllowOrigins[c]

\* What genNormalHeaders and genPreflightHeaders have prepared of them.
setHeaders(c, h) ==
  IF c \in Everyone THEN [h EXCEPT !.allow = Anyone] ELSE [h EXCEPT !.vary = TRUE]

applyRefusesSilently(c, origin, h) ==
  IF notCors(origin) \/ ~validateOrigin(c, origin) THEN h
  ELSE IF c \in Everyone THEN setHeaders(c, h)
  ELSE [setHeaders(c, h) EXCEPT !.allow = origin]

apply(c, origin, h) ==
  IF notCors(origin) \/ ~validateOrigin(c, origin) THEN [h EXCEPT !.vary = TRUE]
  ELSE IF c \in Everyone THEN setHeaders(c, h)
  ELSE [setHeaders(c, h) EXCEPT !.allow = origin]

\* The levels of several UseCors, from the first.
applyAll(cs, origin, h) ==
  LET after[n \in 0..Len(cs)] == IF n = 0 THEN h ELSE apply(cs[n], origin, after[n - 1])
  IN  after[Len(cs)]

\* May a page of this origin read a response with these headers?
Grants(h, origin) == h.allow \in {Anyone, origin}
=================================================================================
