--------------------------- MODULE CollectPromise ---------------------------
(***************************************************************************)
(* What a resumable collection promises (trajectory_collection/README.md,  *)
(* "Resumable", and the docstrings of collect.py): over any number of      *)
(* interrupted runs an instance is attempted until one record of it is     *)
(* kept, and from then on it stays kept and is never attempted again.      *)
(***************************************************************************)
CONSTANT Instances

VARIABLES
  kept,    (* instances with a good record                                  *)
  active   (* instances being attempted by the current run                  *)

vars == <<kept, active>>

Init == kept = {} /\ active = {}

Begin(i) ==
  /\ i \notin kept \cup active
  /\ active' = active \cup {i}
  /\ UNCHANGED kept

Keep(i) ==
  /\ i \in active
  /\ kept' = kept \cup {i}
  /\ active' = active \ {i}

(* The attempt yields nothing that is kept: a later run makes another one. *)
Lose(i) ==
  /\ i \in active
  /\ active' = active \ {i}
  /\ UNCHANGED kept

(* The run is interrupted.                                                 *)
Interrupt ==
  /\ active # {}
  /\ active' = {}
  /\ UNCHANGED kept

Next == Interrupt \/ \E i \in Instances : Begin(i) \/ Keep(i) \/ Lose(i)

Spec == Init /\ [][Next]_vars
=============================================================================
