------------------------------- MODULE Editor -------------------------------
(***************************************************************************)
(* The file editing tools of the agent (agenthub/tools/                    *)
(* str_replace_editor.py and file_editor.py).  Every command is a process  *)
(* of its own: it loads the edit history from STATE_FILE, runs one command *)
(* and saves the history.  The runtime kills a command that takes too      *)
(* long, anywhere; commands do not overlap, but the shell changes files    *)
(* between them.                                                           *)
(*                                                                         *)
(* A text is its body and whether it holds tabs.  Where in a text an edit  *)
(* is made is left out: str_replace finds its place or does not.           *)
(***************************************************************************)
EXTENDS Naturals, Sequences, SequencesExt

CONSTANTS
  Files,
  Bodies,      (* bodies of texts that are not empty                        *)
  MaxUndo      (* bound: entries of a stack                                 *)

ASSUME EditorAssumption ==
  MaxUndo \in Nat \ {0} /\ {"empty", "absent"} \cap Bodies = {}

Texts  == [body : Bodies \cup {"empty"}, tabs : BOOLEAN]
Plain  == {t \in Texts : ~t.tabs}
Empty  == [body |-> "empty", tabs |-> FALSE]
Absent == [body |-> "absent", tabs |-> FALSE]
NoUndo == [f \in Files |-> <<>>]

VARIABLES
  text,        (* the file system                                           *)
  saved,       (* what load_history finds in STATE_FILE: nothing when the   *)
               (* file is missing or not whole                              *)
  pc,          (* the tool: "idle", "loaded", "ran" or "saving"             *)
  cmd, file,   (* its command                                               *)
  history,     (* self.file_history                                         *)
  loaded,      (* the history it began with                                 *)
  before       (* the file when the tool was started                        *)

tool == <<pc, cmd, file, history, loaded, before>>
vars == <<text, saved, tool>>

Commands == {"view", "create", "str_replace", "insert", "undo_edit"}
Edits    == {"str_replace", "insert"}

TypeOK ==
  /\ text \in [Files -> Texts \cup {Absent}]
  /\ saved \in [Files -> Seq(Plain)]
  /\ pc \in {"idle", "loaded", "ran", "saving"}
  /\ cmd \in Commands /\ file \in Files
  /\ history \in [Files -> Seq(Plain)] /\ loaded \in [Files -> Seq(Plain)]
  /\ before \in Texts \cup {Absent}

Init ==
  /\ text \in [Files -> Texts \cup {Absent}]
  /\ saved = NoUndo
  /\ pc = "idle" /\ cmd = "view" /\ file \in Files
  /\ history = NoUndo /\ loaded = NoUndo /\ before = Absent
-----------------------------------------------------------------------------
(* expandtabs on the whole file.                                           *)
Expand(t) == [body |-> t.body, tabs |-> FALSE]

Push(t) == history' = [history EXCEPT ![file] = Append(@, t)]

Write(t) == text' = [text EXCEPT ![file] = t]

(* write_text opens the file, which empties it, before it can fail; a disk *)
(* that takes half of a text is left out.                                  *)
WriteFails == UNCHANGED text \/ Write(Empty)

(* main: load_history finds nothing in a file that is not whole.           *)
Start(c, f) ==
  /\ pc = "idle"
  /\ pc' = "loaded" /\ cmd' = c /\ file' = f
  /\ history' = saved /\ loaded' = saved
  /\ before' = text[f]
  /\ UNCHANGED <<text, saved>>

(* validate_path, a missing or ambiguous old_str, a line out of range, a   *)
(* syntax error: nothing changes, and the history is saved all the same.   *)
Refused ==
  /\ pc = "loaded" /\ pc' = "ran"
  /\ UNCHANGED <<text, saved, cmd, file, history, loaded, before>>

(* create: the entry follows the write.                                    *)
Create ==
  /\ pc = "loaded" /\ cmd = "create"
  /\ text[file] = Absent
  /\ Len(history[file]) < MaxUndo
  /\ \/ (\E t \in Texts : Write(t)) /\ Push(Empty)
     \/ WriteFails /\ UNCHANGED history
  /\ pc' = "ran"
  /\ UNCHANGED <<saved, cmd, file, loaded, before>>

(* str_replace and insert: the entry comes before the write.               *)
Edit_writesFirst ==
  /\ pc = "loaded" /\ cmd \in Edits
  /\ text[file] # Absent
  /\ Len(history[file]) < MaxUndo
  /\ \/ (\E t \in Plain : Write(t)) /\ Push(Expand(text[file]))
     \/ WriteFails /\ UNCHANGED history
  /\ pc' = "ran"
  /\ UNCHANGED <<saved, cmd, file, loaded, before>>

Edit_pushesNew ==
  /\ pc = "loaded" /\ cmd \in Edits
  /\ text[file] # Absent
  /\ Len(history[file]) < MaxUndo
  /\ \E t \in Plain : Write(t) /\ Push(t)
  /\ pc' = "ran"
  /\ UNCHANGED <<saved, cmd, file, loaded, before>>

Edit_keepsTabs ==
  /\ pc = "loaded" /\ cmd \in Edits
  /\ text[file] # Absent
  /\ Len(history[file]) < MaxUndo
  /\ Push(text[file])
  /\ \/ \E t \in Plain : Write(t)
     \/ WriteFails
  /\ pc' = "ran"
  /\ UNCHANGED <<saved, cmd, file, loaded, before>>

Edit ==
  /\ pc = "loaded" /\ cmd \in Edits
  /\ text[file] # Absent
  /\ Len(history[file]) < MaxUndo
  /\ Push(Expand(text[file]))
  /\ \/ \E t \in Plain : Write(t)
     \/ WriteFails
  /\ pc' = "ran"
  /\ UNCHANGED <<saved, cmd, file, loaded, before>>

(* undo_edit: the entry is gone even if the write fails.                   *)
Undo ==
  /\ pc = "loaded" /\ cmd = "undo_edit"
  /\ text[file] # Absent
  /\ history[file] # <<>>
  /\ history' = [history EXCEPT ![file] = Front(@)]
  /\ \/ Write(Last(history[file]))
     \/ WriteFails
  /\ pc' = "ran"
  /\ UNCHANGED <<saved, cmd, file, loaded, before>>
-----------------------------------------------------------------------------
(* save_history empties STATE_FILE and fills it again.                     *)
SaveOpens ==
  /\ pc = "ran"
  /\ pc' = "saving"
  /\ saved' = NoUndo
  /\ UNCHANGED <<text, cmd, file, history, loaded, before>>

Save ==
  /\ pc = "saving"
  /\ pc' = "idle"
  /\ saved' = history
  /\ UNCHANGED <<text, cmd, file, history, loaded, before>>

(* save_history prints a warning when it fails, before or after opening.   *)
SaveFails ==
  /\ pc \in {"ran", "saving"}
  /\ pc' = "idle"
  /\ UNCHANGED <<text, saved, cmd, file, history, loaded, before>>

(* The runtime's timeout, also in the middle of a write of the file.       *)
Killed ==
  /\ pc # "idle"
  /\ pc' = "idle"
  /\ \/ UNCHANGED text
     \/ pc = "loaded" /\ cmd # "view" /\ \E t \in Texts : Write(t)
  /\ UNCHANGED <<saved, cmd, file, history, loaded, before>>

(* The shell changes, creates or removes a file.                           *)
ShellChanges(f) ==
  /\ pc = "idle"
  /\ \E t \in Texts \cup {Absent} : text' = [text EXCEPT ![f] = t]
  /\ UNCHANGED <<saved, tool>>

Next ==
  \/ \E c \in Commands, f \in Files : Start(c, f)
  \/ Refused \/ Create \/ Edit \/ Undo
  \/ SaveOpens \/ Save \/ SaveFails \/ Killed
  \/ \E f \in Files : ShellChanges(f)

Spec == Init /\ [][Next]_vars
-----------------------------------------------------------------------------
(* Every command is one step of EditorPromise, taken when the tool ends;   *)
(* until then its file counts as it was.                                   *)
KeptOf(t) == IF t = Absent THEN Empty ELSE Expand(t)

Promise == INSTANCE EditorPromise WITH
  Kept <- KeptOf,
  text <- IF pc = "idle" THEN text ELSE [text EXCEPT ![file] = before],
  undo <- IF pc = "idle" THEN saved ELSE loaded

KeepsPromise == Promise!Spec

(* An edit never destroys the text it started from: whatever becomes of    *)
(* the write, the text is still in the file or on top of the stack that is *)
(* about to be saved.                                                      *)
OldTextKept ==
  pc \in {"ran", "saving"} /\ cmd \in Edits =>
    \/ text[file] = before
    \/ history[file] # <<>> /\ Last(history[file]) = Expand(before)
=============================================================================
