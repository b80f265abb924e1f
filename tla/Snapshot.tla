-------------------------------- MODULE Snapshot --------------------------------
(***************************************************************************)
(* What a reader of a file namespace can rely on                           *)
(* (config/driver/file/file.go, file_node.go), however changes, timers and *)
(* reloads interleave: what Get answers for the keys of a file is what the *)
(* file held at one moment, all of it, and is replaced as a whole by what  *)
(* it held at a later one.  Files are replaced one at a time, and a file   *)
(* that cannot be read leaves what was shown.  Module FileDriver           *)
(* implements it.                                                          *)
(***************************************************************************)
CONSTANTS
  Files,
  Contents,    \* what a file can hold
  Nothing,     \* the content without a key
  Unreadable   \* a file that is missing or does not parse

VARIABLES file, taken, shown  \* what each file holds, what was last read of it, what Get answers

Init ==
  /\ file \in [Files -> Contents \cup {Unreadable}]
  /\ taken = [f \in Files |-> Nothing]
  /\ shown = [f \in Files |-> Nothing]

Change(f, c) ==
  /\ file' = [file EXCEPT ![f] = c]
  /\ UNCHANGED <<taken, shown>>

Take(f) ==
  /\ file[f] # Unreadable
  /\ taken' = [taken EXCEPT ![f] = file[f]]
  /\ UNCHANGED <<file, shown>>

Show(f) ==
  /\ shown' = [shown EXCEPT ![f] = taken[f]]
  /\ UNCHANGED <<file, taken>>

\* What New does with a file, before anybody reads the cache.
Open(f) ==
  /\ file[f] # Unreadable
  /\ taken' = [taken EXCEPT ![f] = file[f]]
  /\ shown' = [shown EXCEPT ![f] = file[f]]
  /\ UNCHANGED file

Next == \E f \in Files : (\E c \in Contents \cup {Unreadable} : Change(f, c)) \/ Take(f) \/ Show(f) \/ Open(f)

Spec == Init /\ [][Next]_<<file, taken, shown>>
=================================================================================
