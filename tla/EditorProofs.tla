---------------------------- MODULE EditorProofs ----------------------------
(***************************************************************************)
(* Proofs about Editor for every set of files and texts: its types, that   *)
(* an edit never destroys the text it started from, and that it implements *)
(* EditorPromise.  The invariant says what a running tool has done so far: *)
(* nothing (Loaded), or one of the outcomes of its command (Done).         *)
(***************************************************************************)
EXTENDS Editor, TLAPS

(* Until it saves, a tool leaves STATE_FILE as it found it; saving empties *)
(* the file first.                                                         *)
Unsaved ==
  /\ pc \in {"loaded", "ran"} => saved = loaded
  /\ pc = "saving" => saved = NoUndo

Loaded == pc = "loaded" => history = loaded /\ text[file] = before

(* The outcomes of a command: nothing pushed; the text it began from       *)
(* pushed, and kept unless the command created the file; or popped.        *)
Done ==
  pc \in {"ran", "saving"} =>
    \/ history = loaded /\ (cmd \in Edits => text[file] = before)
    \/ /\ history = [loaded EXCEPT ![file] = Append(@, KeptOf(before))]
       /\ text[file] \in Texts
       /\ cmd \in Edits => before # Absent
    \/ /\ cmd = "undo_edit"
       /\ loaded[file] # <<>>
       /\ history = [loaded EXCEPT ![file] = Front(@)]
       /\ text[file] \in {Last(loaded[file]), before, Empty}

IInv == TypeOK /\ Unsaved /\ Loaded /\ Done

USE EditorAssumption DEF Commands, Edits

(* The constants are texts as their names say.                             *)
LEMMA Constants ==
  /\ Empty \in Plain /\ Plain \subseteq Texts /\ Absent \notin Texts
  /\ \A t \in Texts \cup {Absent} : KeptOf(t) \in Plain
  /\ \A t \in Texts : KeptOf(t) = Expand(t)
  BY DEF Empty, Plain, Texts, Absent, KeptOf, Expand

(* What Front and Last return of a stack.                                  *)
LEMMA StackTop ==
  ASSUME NEW S, NEW s \in Seq(S), s # <<>>
  PROVE  Front(s) \in Seq(S) /\ Last(s) \in S
  BY DEF Front, Last

(* What Last returns of a stack that was pushed on.                        *)
LEMMA PushTop ==
  ASSUME NEW S, NEW s \in Seq(S), NEW e \in S
  PROVE  Append(s, e) \in Seq(S) /\ Append(s, e) # <<>> /\ Last(Append(s, e)) = e
  BY DEF Last

(* The initial state satisfies the invariant.                              *)
LEMMA InitInvariant == Init => IInv
  BY DEF Init, IInv, TypeOK, Unsaved, Loaded, Done, NoUndo

(* Every step preserves the invariant.                                     *)
LEMMA NextInvariant == IInv /\ [Next]_vars => IInv'
<1> SUFFICES ASSUME IInv, [Next]_vars PROVE IInv'
  OBVIOUS
<1> USE Constants DEF IInv, TypeOK, Unsaved, Loaded, Done
<1>1. ASSUME NEW c \in Commands, NEW f \in Files, Start(c, f) PROVE IInv'
  BY <1>1 DEF Start
<1>2. CASE Refused
  BY <1>2 DEF Refused
<1>3. CASE Create
  <2>1. /\ pc = "loaded" /\ pc' = "ran" /\ cmd = "create" /\ text[file] = Absent
        /\ UNCHANGED <<saved, cmd, file, loaded, before>>
    BY <1>3 DEF Create
  <2>2. CASE (\E t \in Texts : Write(t)) /\ Push(Empty)
    <3>1. KeptOf(before) = Empty
      BY <2>1 DEF KeptOf
    <3>2. history' = [loaded EXCEPT ![file] = Append(@, KeptOf(before))]
      BY <2>1, <2>2, <3>1 DEF Push
    <3>3. history' \in [Files -> Seq(Plain)]
      BY <2>1, <3>1, <3>2, PushTop
    <3>4. text' \in [Files -> Texts \cup {Absent}] /\ text'[file] \in Texts
      BY <2>2 DEF Write
    <3> QED BY <2>1, <3>2, <3>3, <3>4
  <2>3. CASE WriteFails /\ UNCHANGED history
    <3>1. text' \in [Files -> Texts \cup {Absent}]
      BY <2>3 DEF WriteFails, Write
    <3> QED BY <2>1, <2>3, <3>1
  <2> QED BY <1>3, <2>2, <2>3 DEF Create
<1>4. CASE Edit
  <2>1. /\ pc = "loaded" /\ pc' = "ran" /\ text[file] # Absent
        /\ UNCHANGED <<saved, cmd, file, loaded, before>>
    BY <1>4 DEF Edit
  <2>2. before \in Texts /\ before # Absent
    BY <2>1
  <2>3. history' = [loaded EXCEPT ![file] = Append(@, KeptOf(before))]
    BY <1>4, <2>1, <2>2 DEF Edit, Push
  <2>4. history' \in [Files -> Seq(Plain)]
    BY <2>1, <2>3, PushTop
  <2>5. text' \in [Files -> Texts \cup {Absent}] /\ text'[file] \in Texts
    BY <1>4, <2>1, <2>2 DEF Edit, WriteFails, Write
  <2> QED BY <2>1, <2>2, <2>3, <2>4, <2>5
<1>5. CASE Undo
  <2>1. /\ pc = "loaded" /\ pc' = "ran" /\ cmd = "undo_edit"
        /\ loaded[file] # <<>>
        /\ history' = [loaded EXCEPT ![file] = Front(@)]
        /\ UNCHANGED <<saved, cmd, file, loaded, before>>
    BY <1>5 DEF Undo
  <2>2. Front(loaded[file]) \in Seq(Plain) /\ Last(loaded[file]) \in Plain
    BY <2>1, StackTop
  <2>3. history' \in [Files -> Seq(Plain)]
    BY <2>1, <2>2
  <2>4. /\ text' \in [Files -> Texts \cup {Absent}]
        /\ text'[file] \in {Last(loaded[file]), before, Empty}
    BY <1>5, <2>1, <2>2 DEF Undo, Write, WriteFails
  <2> QED BY <2>1, <2>3, <2>4
<1>6. CASE SaveOpens
  BY <1>6 DEF SaveOpens, NoUndo
<1>7. CASE Save
  BY <1>7 DEF Save
<1>8. CASE SaveFails
  BY <1>8 DEF SaveFails
<1>9. CASE Killed
  BY <1>9 DEF Killed, Write
<1>10. ASSUME NEW f \in Files, ShellChanges(f) PROVE IInv'
  BY <1>10 DEF ShellChanges, tool
<1>11. CASE UNCHANGED vars
  BY <1>11 DEF vars, tool
<1> QED
  BY <1>1, <1>2, <1>3, <1>4, <1>5, <1>6, <1>7, <1>8, <1>9, <1>10, <1>11 DEF Next

(* The inductive invariant of the editing tools.                           *)
THEOREM EditorInvariant == Spec => []IInv
  BY InitInvariant, NextInvariant, PTL DEF Spec

(* The variables keep their types: an entry of the history never holds     *)
(* tabs (str_replace_editor.py:366, 409).                                  *)
THEOREM TypeCorrect == Spec => []TypeOK
<1>1. IInv => TypeOK
  BY DEF IInv
<1> QED
  BY <1>1, EditorInvariant, PTL

(* An edit never destroys the text it started from.                        *)
THEOREM OldTextIsKept == Spec => []OldTextKept
<1>1. IInv => OldTextKept
  <2> SUFFICES ASSUME IInv, pc \in {"ran", "saving"}, cmd \in Edits, text[file] # before
               PROVE  history[file] # <<>> /\ Last(history[file]) = Expand(before)
    BY DEF OldTextKept
  <2> USE DEF IInv, TypeOK
  <2>1. /\ history = [loaded EXCEPT ![file] = Append(@, KeptOf(before))]
        /\ before \in Texts
    BY DEF Done
  <2>2. KeptOf(before) = Expand(before) /\ Expand(before) \in Plain
    BY <2>1, Constants
  <2>3. history[file] = Append(loaded[file], Expand(before))
    BY <2>1, <2>2
  <2>4. loaded[file] \in Seq(Plain)
    OBVIOUS
  <2> HIDE DEF IInv, TypeOK
  <2> QED BY <2>2, <2>3, <2>4, PushTop
<1> QED
  BY <1>1, EditorInvariant, PTL
-----------------------------------------------------------------------------
(* The variables of the promise.                                           *)
AbsText == IF pc = "idle" THEN text ELSE [text EXCEPT ![file] = before]
AbsUndo == IF pc = "idle" THEN saved ELSE loaded

(* The operators of the promise's own instance of SequencesExt.            *)
LEMMA SameOps == \A s : Promise!Front(s) = Front(s) /\ Promise!Last(s) = Last(s)
  BY DEF Front, Last, Promise!Front, Promise!Last

(* A tool that ends without saving may have rewritten its file and lost    *)
(* nothing, or everything.                                                 *)
LEMMA EndsUnsaved ==
  ASSUME IInv, IInv', pc # "idle", pc' = "idle",
         UNCHANGED <<saved, file, loaded, before>>,
         text' = text \/ \E t \in Texts : text' = [text EXCEPT ![file] = t]
  PROVE  Promise!Next
<1> USE DEF IInv, TypeOK
<1>1. text' = [AbsText EXCEPT ![file] = text'[file]] /\ text'[file] \in Texts \cup {Absent}
  BY DEF AbsText
<1>2. AbsText' = text' /\ AbsUndo' = saved
  BY DEF AbsText, AbsUndo
<1>3. CASE pc \in {"loaded", "ran"}
  BY <1>1, <1>2, <1>3 DEF Unsaved, AbsText, AbsUndo, Promise!Next, Promise!Change, Promise!Rewritten
<1>4. CASE pc = "saving"
  BY <1>1, <1>2, <1>4 DEF Unsaved, NoUndo, AbsText, AbsUndo, Promise!Next, Promise!LoseAll, Promise!Rewritten
<1> QED BY <1>3, <1>4

(* A tool that saves takes the step of its command.                        *)
LEMMA SaveImplements ==
  ASSUME IInv, IInv', Save
  PROVE  Promise!Next
<1> USE DEF IInv, TypeOK
<1>1. /\ pc = "saving" /\ pc' = "idle" /\ saved' = history
      /\ UNCHANGED <<text, file, loaded, before>>
  BY DEF Save
<1>2. text = [AbsText EXCEPT ![file] = text[file]] /\ text[file] \in Texts \cup {Absent}
  BY <1>1 DEF AbsText
<1>3. AbsText' = text /\ AbsUndo' = history /\ AbsUndo = loaded /\ AbsText[file] = before
  BY <1>1 DEF AbsText, AbsUndo
<1>4. CASE history = loaded
  BY <1>1, <1>2, <1>3, <1>4 DEF AbsText, AbsUndo, Promise!Next, Promise!Change, Promise!Rewritten
<1>5. CASE /\ history = [loaded EXCEPT ![file] = Append(@, KeptOf(before))]
           /\ text[file] \in Texts
  BY <1>1, <1>2, <1>3, <1>5 DEF AbsText, AbsUndo, Promise!Next, Promise!Edit
<1>6. CASE /\ loaded[file] # <<>>
           /\ history = [loaded EXCEPT ![file] = Front(@)]
           /\ text[file] = Last(loaded[file])
  BY <1>1, <1>2, <1>3, <1>6, SameOps DEF AbsText, AbsUndo, Promise!Next, Promise!Undo
<1>7. CASE /\ loaded[file] # <<>>
           /\ history = [loaded EXCEPT ![file] = Front(@)]
           /\ text[file] \in {before, Empty}
  <2>1. text \in {AbsText, [AbsText EXCEPT ![file] = Empty]}
    BY <1>1, <1>2, <1>7 DEF AbsText
  <2> QED
    BY <1>1, <1>3, <1>7, <2>1, SameOps DEF AbsText, AbsUndo, Promise!Next, Promise!LoseNewest
<1> QED BY <1>1, <1>4, <1>5, <1>6, <1>7 DEF Done

(* Every other step leaves the promise's variables alone, or is a change   *)
(* made by the shell.                                                      *)
LEMMA StepImplements ==
  IInv /\ IInv' /\ [Next]_vars => [Promise!Next]_(Promise!vars)
<1> SUFFICES ASSUME IInv, IInv', [Next]_vars
             PROVE  Promise!Next \/ (AbsText' = AbsText /\ AbsUndo' = AbsUndo)
  BY DEF Promise!vars, AbsText, AbsUndo
<1> USE DEF IInv, TypeOK
<1>1. ASSUME NEW c \in Commands, NEW f \in Files, Start(c, f)
      PROVE  AbsText' = AbsText /\ AbsUndo' = AbsUndo
  BY <1>1 DEF Start, AbsText, AbsUndo
<1>2. ASSUME pc # "idle", pc' # "idle", UNCHANGED <<file, loaded, before>>,
             text' = text \/ \E t : text' = [text EXCEPT ![file] = t]
      PROVE  AbsText' = AbsText /\ AbsUndo' = AbsUndo
  BY <1>2 DEF AbsText, AbsUndo
<1>3. CASE Refused \/ SaveOpens
  BY <1>2, <1>3 DEF Refused, SaveOpens
<1>4. CASE Create
  BY <1>2, <1>4 DEF Create, Write, WriteFails
<1>5. CASE Edit
  BY <1>2, <1>5 DEF Edit, Write, WriteFails
<1>6. CASE Undo
  BY <1>2, <1>6 DEF Undo, Write, WriteFails
<1>7. CASE Save
  BY <1>7, SaveImplements
<1>8. CASE SaveFails
  BY <1>8, EndsUnsaved DEF SaveFails
<1>9. CASE Killed
  BY <1>9, EndsUnsaved DEF Killed, Write
<1>10. ASSUME NEW f \in Files, ShellChanges(f) PROVE Promise!Next
  BY <1>10 DEF ShellChanges, tool, Promise!Next, Promise!Change, Promise!Rewritten
<1>11. CASE UNCHANGED vars
  BY <1>11 DEF vars, tool, AbsText, AbsUndo
<1> QED
  BY <1>1, <1>3, <1>4, <1>5, <1>6, <1>7, <1>8, <1>9, <1>10, <1>11 DEF Next

(* The tools implement the promise: whatever fails and whenever a tool is  *)
(* killed, the history is a stack of what was edited, or lost.             *)
THEOREM ImplementsPromise == Spec => KeepsPromise
<1>1. Init => Promise!Init
  BY DEF Init, Promise!Init, NoUndo
<1> QED
  BY <1>1, StepImplements, EditorInvariant, PTL DEF Spec, KeepsPromise, Promise!Spec
=============================================================================
