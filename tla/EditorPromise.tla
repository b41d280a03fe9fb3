--------------------------- MODULE EditorPromise ---------------------------
(***************************************************************************)
(* What the file editing tools promise the agent about undo_edit: each     *)
(* file has a stack of the texts its edits began from; an edit pushes one, *)
(* an undo puts the newest back; a killed tool may lose the newest entry   *)
(* or all of them, and never invents or reorders any.                      *)
(***************************************************************************)
EXTENDS Sequences, SequencesExt

CONSTANTS
  Files, Texts,
  Absent,      (* what stands for the text of a file that does not exist    *)
  Empty,       (* the text of a file that was opened and not written        *)
  Kept(_)      (* what the stack keeps of a text                            *)

VARIABLES
  text,        (* each file                                                 *)
  undo         (* the texts its edits began from, newest last               *)

vars == <<text, undo>>

Init == /\ text \in [Files -> Texts \cup {Absent}]
        /\ undo = [f \in Files |-> <<>>]

Edit(f) ==
  /\ \E t \in Texts : text' = [text EXCEPT ![f] = t]
  /\ undo' = [undo EXCEPT ![f] = Append(@, Kept(text[f]))]

Undo(f) ==
  /\ undo[f] # <<>>
  /\ text' = [text EXCEPT ![f] = Last(undo[f])]
  /\ undo' = [undo EXCEPT ![f] = Front(@)]

(* The file changes without an entry: others change it, or a tool fails.   *)
Rewritten(f) == \E t \in Texts \cup {Absent} : text' = [text EXCEPT ![f] = t]

Change(f) == Rewritten(f) /\ UNCHANGED undo

(* An undo that fails to write loses its entry.                            *)
LoseNewest(f) ==
  /\ undo[f] # <<>>
  /\ text' \in {text, [text EXCEPT ![f] = Empty]}
  /\ undo' = [undo EXCEPT ![f] = Front(@)]

(* A tool that cannot save, or is killed while it saves, may lose them all.*)
LoseAll(f) ==
  /\ Rewritten(f)
  /\ undo' = [g \in Files |-> <<>>]

Next == \E f \in Files : Edit(f) \/ Undo(f) \/ Change(f) \/ LoseNewest(f) \/ LoseAll(f)

Spec == Init /\ [][Next]_vars
=============================================================================
