--------------------------- MODULE AgentRunProofs ---------------------------
(***************************************************************************)
(* Proofs about the agent's history and its compression, for every window, *)
(* trigger, number of steps, restarts and iterations.  The types hold for  *)
(* every number of kept turns; what the history tells is proved where at   *)
(* least one turn is kept (keep_recent 0 takes history[-0:] for the kept   *)
(* messages, memory.py:559).                                               *)
(***************************************************************************)
EXTENDS AgentRun, SequenceTheorems, FiniteSetTheorems, WellFoundedInduction,
        TLAPS

Messages == [kind : {"prompt", "summary", "assistant", "observation"},
             turns : Seq(Turns), made : 0..MaxStepsAbsolute]

(* A nonempty set of natural numbers has a least element.                  *)
LEMMA LeastNat ==
  ASSUME NEW T \in SUBSET Nat, T # {}
  PROVE  Min(T) \in T /\ \A n \in T : Min(T) <= n
<1>1. PICK m \in T : \A n \in T : ~ (<<n, m>> \in OpToRel(<, Nat))
  BY WFMin, NatLessThanWellFounded, Zenon
<1>2. \A n \in T : ~ (n < m)
  BY <1>1, Zenon DEF OpToRel
<1>3. \A n \in T : m <= n
  BY <1>2
<1> QED
  BY <1>3 DEF Min

(* A multiplication the solver is spared.                                  *)
LEMMA TimesMono ==
  ASSUME NEW a \in Nat, NEW b \in Nat, NEW w \in Nat, a <= b
  PROVE  a * w \in Nat /\ b * w \in Nat /\ a * w <= b * w
<1>1. PICK d \in Nat : b = a + d
  <2>1. b - a \in Nat /\ b = a + (b - a)
    OBVIOUS
  <2> QED
    BY <2>1
<1>2. a * w \in Nat /\ d * w \in Nat /\ (a + d) * w = a * w + d * w
  OBVIOUS
<1> QED
  BY <1>1, <1>2

LEMMA DivMod ==
  ASSUME NEW u \in Nat, NEW w \in Nat \ {0}
  PROVE  /\ u \div w \in Nat /\ u % w \in 0..(w - 1)
         /\ (u \div w) * w \in Nat
         /\ u = (u \div w) * w + (u % w)
<1>1. u \div w \in Nat
  OBVIOUS
<1>2. u % w \in 0..(w - 1)
  OBVIOUS
<1>3. u = w * (u \div w) + (u % w)
  OBVIOUS
<1>4. (u \div w) * w = w * (u \div w) /\ (u \div w) * w \in Nat
  BY <1>1
<1> QED
  BY <1>1, <1>2, <1>3, <1>4

LEMMA DivUnique ==
  ASSUME NEW W \in Nat, NEW w \in Nat \ {0}
  PROVE  (W * w) \div w = W
OBVIOUS
-----------------------------------------------------------------------------
(* The loops: a trajectory is kept for each iteration that is over, and a  *)
(* run that has ended has a reason.                                        *)
Loops ==
  /\ pc \in {"setup", "turn", "query", "ended"} => Len(trajectories) = iteration
  /\ pc = "ended" => exitReason # "none"
  /\ pc \in {"turn", "query"} => stepCount < MaxStepsAbsolute

(* The counters of the memory: every turn up to lastCompressed has its     *)
(* summary, the complete windows among them are in the history, and no     *)
(* compression that was due is left undone when the model is asked.        *)
Counters ==
  InRun =>
    /\ memory.singles = [i \in 1..memory.lastCompressed |-> i - 1]
    /\ memory.lastAppended = OldWindows * args.window
    /\ memory.lastAppended <= memory.lastCompressed
    /\ memory.lastCompressed < memory.lastAppended + args.window
    /\ memory.lastCompressed > 0 => /\ memory.lastCompressed <= CompressUntil
                                    /\ args.trigger <= stepCount
    /\ 2 + OldWindows <= Len(history)
    /\ pc = "query" => ~NeedsCompression

(* The history: two prompts, a message for each window, then two messages  *)
(* for each turn that is in none.                                          *)
Place(t) == 3 + OldWindows + 2 * (t - memory.lastAppended)
WindowTurns(n) == [k \in 1..args.window |-> (n - 1) * args.window + k - 1]
Shape ==
  InRun /\ args.keep > 0 =>
    /\ Len(history) = Place(stepCount) - 1
    /\ history[1].kind = "prompt" /\ history[2].kind = "prompt"
    /\ \A n \in 1..OldWindows :
         /\ IsSummary(2 + n)
         /\ history[2 + n].turns = WindowTurns(n)
    /\ \A t \in memory.lastAppended..(stepCount - 1) : InFull(Place(t), t)

IInv == TypeOK /\ Loops /\ Counters /\ Shape

LEMMA ArgsType ==
  ASSUME args \in Args
  PROVE  /\ args.window \in Nat \ {0} /\ args.keep \in Nat /\ args.trigger \in Nat
         /\ args.restarts \in Nat \ {0} /\ args.iterations \in Nat \ {0}
         /\ args.compress \in BOOLEAN
         /\ args.restarts = 1 \/ args.iterations = 1
BY ArgumentsAssumption DEF Args

LEMMA InitInv == Init => IInv
<1> SUFFICES ASSUME Init PROVE IInv
  OBVIOUS
<1>1. TypeOK
  <2>1. args \in Args
    BY DEF Init
  <2>2. args.iterations \in Nat \ {0} /\ args.restarts \in Nat \ {0}
    BY <2>1, ArgsType
  <2>3. memory.lastCompressed = 0 /\ memory.lastAppended = 0 /\ memory.singles = <<>>
    BY DEF Init, EmptyMemory
  <2>4. iteration \in 0..(args.iterations - 1) /\ idx \in 0..(args.restarts - 1)
    BY <2>2 DEF Init
  <2>5. stepCount \in 0..MaxStepsAbsolute /\ memory.lastCompressed \in 0..stepCount
        /\ memory.lastAppended \in 0..stepCount
    BY <2>3, ArgumentsAssumption DEF Init
  <2>6. Len(trajectories) <= args.iterations /\ Len(chosen) <= 1
    BY <2>2 DEF Init
  <2>7. trajectories = <<>> /\ chosen = <<>> /\ history = <<>>
    BY DEF Init
  <2>8. \A S : <<>> \in Seq(S)
    BY EmptySeq
  <2> QED
    BY <2>1, <2>3, <2>4, <2>5, <2>6, <2>7, <2>8 DEF Init, TypeOK
<1>2. Loops /\ Counters /\ Shape
  BY DEF Init, Loops, Counters, Shape, InRun
<1> QED
  BY <1>1, <1>2 DEF IInv
-----------------------------------------------------------------------------
(* What compress_history works with, when it goes past its early returns.  *)
Singles     == memory.singles \o NewSingles
NewWindows  == CompressUntil \div args.window
NewAppended == CompressUntil - (CompressUntil % args.window)

LEMMA CompressNumbers ==
  ASSUME TypeOK, Counters, InRun, NeedsCompression
  PROVE  /\ CompressUntil \in Nat /\ CompressUntil + args.keep = stepCount
         /\ memory.lastCompressed <= CompressUntil
         /\ OldWindows \in Nat /\ NewWindows \in Nat /\ OldWindows < NewWindows
         /\ NewAppended = NewWindows * args.window /\ NewAppended \in Nat
         /\ memory.lastAppended < NewAppended
         /\ NewAppended <= CompressUntil /\ CompressUntil < NewAppended + args.window
         /\ CompressUntil % args.window \in Nat
<1> DEFINE u == CompressUntil
           w == args.window
           a == memory.lastAppended
<1>1. w \in Nat \ {0} /\ args.keep \in Nat /\ stepCount \in Nat /\ a \in Nat
      /\ memory.lastCompressed \in Nat
  <2>1. w \in Nat \ {0} /\ args.keep \in Nat
    BY ArgsType DEF TypeOK
  <2>2. /\ stepCount \in 0..MaxStepsAbsolute
        /\ a \in 0..stepCount /\ memory.lastCompressed \in 0..stepCount
    BY DEF TypeOK
  <2> QED
    BY <2>1, <2>2, ArgumentsAssumption
<1>2. u \in Nat /\ u + args.keep = stepCount /\ a + w <= u
  BY <1>1 DEF NeedsCompression, CompressUntil
<1>3. memory.lastCompressed <= u
  BY <1>1, <1>2 DEF Counters
<1>4. /\ NewWindows \in Nat /\ u % w \in 0..(w - 1)
      /\ NewWindows * w \in Nat /\ u = NewWindows * w + (u % w)
  BY <1>1, <1>2, DivMod DEF NewWindows
<1>5. NewAppended = NewWindows * w
  BY <1>1, <1>2, <1>4 DEF NewAppended
<1>6. OldWindows \in Nat /\ OldWindows * w = a
  BY <1>1, DivMod DEF OldWindows, Counters
<1>7. OldWindows < NewWindows
  <2>1. CASE NewWindows <= OldWindows
    <3>1. NewWindows * w <= OldWindows * w
      BY <2>1, <1>1, <1>4, <1>6, TimesMono
    <3> QED
      BY <3>1, <1>1, <1>2, <1>4, <1>6
  <2> QED
    BY <2>1, <1>4, <1>6
<1>8. a < NewAppended
  BY <1>1, <1>2, <1>4, <1>5
<1> QED
  BY <1>1, <1>2, <1>3, <1>4, <1>5, <1>6, <1>7, <1>8

(* Step 1 leaves a summary of every turn up to CompressUntil, in order.    *)
LEMMA SinglesAreAll ==
  ASSUME TypeOK, Counters, InRun, NeedsCompression
  PROVE  /\ Singles = [i \in 1..CompressUntil |-> i - 1]
         /\ Singles \in Seq(Turns) /\ Len(Singles) = CompressUntil
<1> DEFINE u == CompressUntil
           c == memory.lastCompressed
           s == [i \in 1..u |-> i - 1]
           new == [i \in 1..(u - c) |-> c + i - 1]
<1>1. u \in Nat /\ c \in Nat /\ c <= u /\ u <= stepCount /\ stepCount \in Nat
      /\ stepCount <= MaxStepsAbsolute /\ MaxStepsAbsolute \in Nat
  <2>1. stepCount \in 0..MaxStepsAbsolute /\ c \in 0..stepCount /\ MaxStepsAbsolute \in Nat
        /\ args.keep \in Nat
    BY ArgsType, ArgumentsAssumption DEF TypeOK
  <2>2. u \in Nat /\ u + args.keep = stepCount /\ c <= u
    BY CompressNumbers
  <2> HIDE DEF u, c
  <2> QED
    BY <2>1, <2>2
<1>2. \A i \in 1..u : i - 1 \in Turns
  BY <1>1 DEF Turns
<1>3. s \in Seq(Turns) /\ Len(s) = u
  BY <1>1, <1>2
<1>4. new \in Seq(Turns) /\ Len(new) = u - c
  BY <1>1 DEF Turns
<1>5. memory.singles \in Seq(Turns) /\ Len(memory.singles) = c
      /\ \A i \in 1..c : memory.singles[i] = i - 1
  BY <1>1 DEF TypeOK, Counters
<1>6. Singles = memory.singles \o new
  BY DEF Singles, NewSingles
<1> HIDE DEF new, s
<1>7. /\ Singles \in Seq(Turns) /\ Len(Singles) = u
      /\ \A i \in 1..u : Singles[i] = IF i <= c THEN memory.singles[i] ELSE new[i - c]
  <2> HIDE DEF u, c
  <2>1. c + (u - c) = u
    BY <1>1
  <2>2. /\ memory.singles \o new \in Seq(Turns)
        /\ Len(memory.singles \o new) = c + (u - c)
        /\ \A i \in 1..(c + (u - c)) :
             (memory.singles \o new)[i] = IF i <= c THEN memory.singles[i] ELSE new[i - c]
    <3> DEFINE old == memory.singles
    <3>1. old \in Seq(Turns) /\ Len(old) = c /\ new \in Seq(Turns) /\ Len(new) = u - c
      BY <1>4, <1>5
    <3> HIDE DEF old
    <3>2. /\ old \o new \in Seq(Turns)
          /\ Len(old \o new) = Len(old) + Len(new)
          /\ \A i \in 1..(Len(old) + Len(new)) :
               (old \o new)[i] = IF i <= Len(old) THEN old[i] ELSE new[i - Len(old)]
      BY <3>1, ConcatProperties
    <3>3. /\ old \o new \in Seq(Turns)
          /\ Len(old \o new) = c + (u - c)
          /\ \A i \in 1..(c + (u - c)) :
               (old \o new)[i] = IF i <= c THEN old[i] ELSE new[i - c]
      BY <3>1, <3>2, Zenon
    <3> QED
      BY <3>3 DEF old
  <2> QED
    BY <2>1, <2>2, <1>6
<1>8. ASSUME NEW i \in 1..u PROVE Singles[i] = i - 1
  <2> HIDE DEF u, c
  <2>1. CASE i <= c
    BY <2>1, <1>1, <1>5, <1>7
  <2>2. CASE ~(i <= c)
    <3>1. i - c \in 1..(u - c) /\ c + (i - c) - 1 = i - 1
      BY <2>2, <1>1
    <3>2. new[i - c] = c + (i - c) - 1
      BY <3>1 DEF new
    <3> QED
      BY <2>2, <3>1, <3>2, <1>7
  <2> QED
    BY <2>1, <2>2
<1>9. Singles = s
  <2> HIDE DEF u
  <2> QED BY <1>3, <1>7, <1>8, SeqEqual DEF s
<1> QED
  BY <1>7, <1>9 DEF s

(* Step 2 makes a message of the turns of each window that is complete.    *)
LEMMA WindowIsSummarised ==
  ASSUME TypeOK, Counters, InRun, NeedsCompression,
         NEW i \in 1..(NewWindows - OldWindows)
  PROVE  LET first == (OldWindows + i - 1) * args.window
         IN  /\ SubSeq(Singles, first + 1, first + args.window) \in Seq(Turns)
             /\ SubSeq(Singles, first + 1, first + args.window) = WindowTurns(OldWindows + i)
<1> DEFINE w == args.window
           n == OldWindows + i
           first == (n - 1) * w
           t == SubSeq(Singles, first + 1, first + w)
<1>1. w \in Nat \ {0} /\ n - 1 \in Nat /\ n \in Nat /\ n <= NewWindows
      /\ NewWindows \in Nat /\ NewWindows * w <= CompressUntil /\ CompressUntil \in Nat
  <2>1. w \in Nat \ {0}
    BY ArgsType DEF TypeOK
  <2>2. /\ OldWindows \in Nat /\ NewWindows \in Nat /\ CompressUntil \in Nat
        /\ NewWindows * w <= CompressUntil
    BY CompressNumbers
  <2>3. n - 1 \in Nat /\ n \in Nat /\ n <= NewWindows
    BY <2>2
  <2> QED
    BY <2>1, <2>2, <2>3
<1> HIDE DEF w, n
<1>2. first \in Nat /\ first + w = n * w /\ n * w \in Nat
  BY <1>1
<1>3. n * w <= NewWindows * w
  BY <1>1, TimesMono
<1>4. NewWindows * w \in Nat
  BY <1>1
<1>5. first + w <= CompressUntil
  BY <1>1, <1>2, <1>3, <1>4
<1> HIDE DEF first
<1>6. \A k \in (first + 1)..(first + w) : Singles[k] \in Turns /\ Singles[k] = k - 1
  <2>1. \A k \in 1..CompressUntil : Singles[k] \in Turns /\ Singles[k] = k - 1
    BY SinglesAreAll, <1>1
  <2> QED
    BY <2>1, <1>1, <1>2, <1>5
<1>7. /\ t \in Seq(Turns) /\ Len(t) = w
      /\ \A k \in 1..w : t[k] = Singles[first + k]
  <2>1. first + 1 \in Int /\ first + w \in Int /\ first + 1 <= first + w
        /\ (first + w) - (first + 1) + 1 = w
        /\ \A k \in 1..w : (first + 1) + k - 1 = first + k
    BY <1>1, <1>2
  <2>2. \A k \in (first + 1)..(first + w) : Singles[k] \in Turns
    BY <1>6
  <2>3. /\ t \in Seq(Turns)
        /\ Len(t) = IF first + 1 <= first + w THEN (first + w) - (first + 1) + 1 ELSE 0
        /\ \A k \in 1..((first + w) - (first + 1) + 1) : t[k] = Singles[(first + 1) + k - 1]
    BY <2>1, <2>2, SubSeqProperties
  <2> QED
    BY <2>1, <2>3
<1> HIDE DEF t
<1>8. \A k \in 1..w : t[k] = first + k - 1
  <2> SUFFICES ASSUME NEW k \in 1..w PROVE t[k] = first + k - 1
    OBVIOUS
  <2> DEFINE j == first + k
  <2>1. j \in (first + 1)..(first + w)
    BY <1>1, <1>2
  <2>2. t[k] = Singles[j]
    BY <1>7
  <2> HIDE DEF j
  <2>3. Singles[j] = j - 1
    BY <2>1, <1>6
  <2> QED
    BY <2>2, <2>3, <1>1, <1>2 DEF j
<1>9. t = [k \in 1..w |-> first + k - 1]
  <2>1. t = [k \in 1..w |-> t[k]]
    BY <1>7, <1>1
  <2> QED
    BY <2>1, <1>8
<1>10. t \in Seq(Turns) /\ t = WindowTurns(n)
  BY <1>7, <1>9 DEF first, w, WindowTurns
<1>11. n - 1 = OldWindows + i - 1
  BY <1>1, CompressNumbers DEF n
<1> QED
  BY <1>10, <1>11 DEF t, first, n, w

LEMMA WindowsMade ==
  ASSUME TypeOK, Counters, InRun, NeedsCompression
  PROVE  LET made == WindowMessages(Singles)
         IN  /\ made \in Seq(Messages)
             /\ Len(made) = NewWindows - OldWindows
             /\ \A i \in 1..(NewWindows - OldWindows) :
                  /\ made[i].kind = "summary"
                  /\ made[i].turns = WindowTurns(OldWindows + i)
<1> DEFINE n == NewWindows - OldWindows
           turns(i) == SubSeq(Singles, (OldWindows + i - 1) * args.window + 1,
                              (OldWindows + i - 1) * args.window + args.window)
<1>1. n \in Nat /\ stepCount \in 0..MaxStepsAbsolute
  BY CompressNumbers DEF TypeOK
<1>2. Len(Singles) \div args.window = NewWindows
  BY SinglesAreAll DEF NewWindows
<1>3. WindowMessages(Singles) = [i \in 1..n |-> Message("summary", turns(i))]
  BY <1>2 DEF WindowMessages
<1>4. ASSUME NEW i \in 1..n
      PROVE  turns(i) \in Seq(Turns) /\ turns(i) = WindowTurns(OldWindows + i)
  BY WindowIsSummarised
<1> HIDE DEF n, turns
<1>5. \A i \in 1..n : Message("summary", turns(i)) \in Messages
  BY <1>1, <1>4 DEF Message, Messages
<1>6. [i \in 1..n |-> Message("summary", turns(i))] \in Seq(Messages)
      /\ Len([i \in 1..n |-> Message("summary", turns(i))]) = n
  BY <1>1, <1>5
<1>7. \A i \in 1..n : /\ Message("summary", turns(i)).kind = "summary"
                      /\ Message("summary", turns(i)).turns = WindowTurns(OldWindows + i)
  BY <1>4 DEF Message
<1> QED
  BY <1>3, <1>6, <1>7 DEF n

(* Three pieces of history put together.                                   *)
LEMMA Joined ==
  ASSUME NEW a \in Seq(Messages), NEW b \in Seq(Messages), NEW c \in Seq(Messages)
  PROVE  /\ a \o b \o c \in Seq(Messages)
         /\ Len(a \o b \o c) = Len(a) + Len(b) + Len(c)
         /\ \A i \in 1..Len(a) : (a \o b \o c)[i] = a[i]
         /\ \A i \in 1..Len(b) : (a \o b \o c)[Len(a) + i] = b[i]
         /\ \A i \in 1..Len(c) : (a \o b \o c)[Len(a) + Len(b) + i] = c[i]
<1>1. /\ a \o b \in Seq(Messages) /\ Len(a \o b) = Len(a) + Len(b)
      /\ \A i \in 1..Len(a) : (a \o b)[i] = a[i]
      /\ \A i \in 1..Len(b) : (a \o b)[Len(a) + i] = b[i]
  OBVIOUS
<1> DEFINE ab == a \o b
<1> HIDE DEF ab
<1>2. ASSUME ab \in Seq(Messages)
      PROVE  /\ ab \o c \in Seq(Messages) /\ Len(ab \o c) = Len(ab) + Len(c)
             /\ \A i \in 1..Len(ab) : (ab \o c)[i] = ab[i]
             /\ \A i \in 1..Len(c) : (ab \o c)[Len(ab) + i] = c[i]
  BY <1>2
<1>3. Len(a) \in Nat /\ Len(b) \in Nat
  OBVIOUS
<1> QED
  BY <1>1, <1>2, <1>3 DEF ab

LEMMA Part ==
  ASSUME NEW S, NEW s \in Seq(S), NEW m \in Nat \ {0}, NEW n \in Nat,
         m <= n + 1, n <= Len(s)
  PROVE  /\ SubSeq(s, m, n) \in Seq(S) /\ Len(SubSeq(s, m, n)) = n + 1 - m
         /\ \A i \in 1..(n + 1 - m) : SubSeq(s, m, n)[i] = s[m + i - 1]
OBVIOUS

(* The three pieces of the compressed history.                             *)
Tail3 ==
  LET kept == KeptMessages(Singles)
  IN  IF Len(history) > kept + 2 THEN LastMessages(history, kept)
      ELSE SubSeq(history, 3, Len(history))

LEMMA Pieces ==
  ASSUME TypeOK, Counters, InRun, NeedsCompression
  PROVE  /\ SubSeq(history, 1, 2 + OldWindows) \in Seq(Messages)
         /\ Len(SubSeq(history, 1, 2 + OldWindows)) = 2 + OldWindows
         /\ \A i \in 1..(2 + OldWindows) :
              SubSeq(history, 1, 2 + OldWindows)[i] = history[i]
         /\ Tail3 \in Seq(Messages)
         /\ CompressedHistory(Singles) =
              SubSeq(history, 1, 2 + OldWindows) \o WindowMessages(Singles) \o Tail3
<1> DEFINE kept == KeptMessages(Singles)
<1>1. history \in Seq(Messages) /\ OldWindows \in Nat /\ 2 + OldWindows <= Len(history)
      /\ Len(history) \in Nat
  <2>1. history \in Seq(Messages)
    BY DEF TypeOK, Messages
  <2>2. OldWindows \in Nat
    BY CompressNumbers
  <2>3. 2 + OldWindows <= Len(history)
    BY DEF Counters
  <2> QED
    BY <2>1, <2>2, <2>3
<1>2. kept \in Nat
  <2>1. args.keep \in Nat /\ CompressUntil % args.window \in Nat
    BY CompressNumbers, ArgsType DEF TypeOK
  <2>2. kept = 2 * (args.keep + (CompressUntil % args.window))
    BY SinglesAreAll DEF KeptMessages
  <2> QED
    BY <2>1, <2>2
<1> HIDE DEF kept
<1>3. Tail3 \in Seq(Messages)
  <2>1. SubSeq(history, 3, Len(history)) \in Seq(Messages)
    BY <1>1, Part
  <2>2. LastMessages(history, kept) \in Seq(Messages)
    <3>1. CASE kept = 0 \/ kept >= Len(history)
      BY <3>1, <1>1 DEF LastMessages
    <3>2. CASE ~(kept = 0 \/ kept >= Len(history))
      <4>1. SubSeq(history, Len(history) - kept + 1, Len(history)) \in Seq(Messages)
        BY <3>2, <1>1, <1>2, Part
      <4> QED
        BY <3>2, <4>1 DEF LastMessages
    <3> QED
      BY <3>1, <3>2
  <2> QED
    BY <2>1, <2>2 DEF Tail3, kept
<1>4. CompressedHistory(Singles) =
        SubSeq(history, 1, 2 + OldWindows) \o WindowMessages(Singles) \o Tail3
  BY DEF CompressedHistory, Tail3
<1>5. /\ SubSeq(history, 1, 2 + OldWindows) \in Seq(Messages)
      /\ Len(SubSeq(history, 1, 2 + OldWindows)) = 2 + OldWindows
      /\ \A i \in 1..(2 + OldWindows) :
           SubSeq(history, 1, 2 + OldWindows)[i] = history[i]
  <2> DEFINE q == 2 + OldWindows
  <2>1. q \in Nat /\ 1 <= q + 1 /\ q <= Len(history)
    BY <1>1
  <2> HIDE DEF q
  <2>2. /\ SubSeq(history, 1, q) \in Seq(Messages)
        /\ Len(SubSeq(history, 1, q)) = q + 1 - 1
        /\ \A i \in 1..(q + 1 - 1) : SubSeq(history, 1, q)[i] = history[1 + i - 1]
    BY <2>1, <1>1, Part
  <2>3. q + 1 - 1 = q /\ \A i \in 1..q : 1 + i - 1 = i
    BY <2>1
  <2>4. /\ SubSeq(history, 1, q) \in Seq(Messages) /\ Len(SubSeq(history, 1, q)) = q
        /\ \A i \in 1..q : SubSeq(history, 1, q)[i] = history[i]
    BY <2>2, <2>3
  <2> QED
    BY <2>4 DEF q
<1> QED
  BY <1>3, <1>4, <1>5

(* Where everything is in the compressed history.                          *)
LEMMA CompressedPlaces ==
  ASSUME TypeOK, Counters, InRun, NeedsCompression
  PROVE  LET new == CompressedHistory(Singles)
         IN  /\ new \in Seq(Messages)
             /\ Len(new) = 2 + NewWindows + Len(Tail3)
             /\ \A i \in 1..(2 + OldWindows) : new[i] = history[i]
             /\ \A n \in (OldWindows + 1)..NewWindows :
                  new[2 + n].kind = "summary" /\ new[2 + n].turns = WindowTurns(n)
             /\ \A i \in 1..Len(Tail3) : new[2 + NewWindows + i] = Tail3[i]
<1> DEFINE a == SubSeq(history, 1, 2 + OldWindows)
           b == WindowMessages(Singles)
<1>1. /\ a \in Seq(Messages) /\ Len(a) = 2 + OldWindows
      /\ \A i \in 1..(2 + OldWindows) : a[i] = history[i]
      /\ Tail3 \in Seq(Messages) /\ CompressedHistory(Singles) = a \o b \o Tail3
  BY Pieces
<1>2. /\ b \in Seq(Messages) /\ Len(b) = NewWindows - OldWindows
      /\ \A i \in 1..(NewWindows - OldWindows) :
           b[i].kind = "summary" /\ b[i].turns = WindowTurns(OldWindows + i)
  BY WindowsMade
<1>3. OldWindows \in Nat /\ NewWindows \in Nat /\ OldWindows < NewWindows
  BY CompressNumbers
<1> DEFINE new == a \o b \o Tail3
<1> HIDE DEF a, b
<1>4. /\ new \in Seq(Messages)
      /\ Len(new) = Len(a) + Len(b) + Len(Tail3)
      /\ \A i \in 1..Len(a) : new[i] = a[i]
      /\ \A i \in 1..Len(b) : new[Len(a) + i] = b[i]
      /\ \A i \in 1..Len(Tail3) : new[Len(a) + Len(b) + i] = Tail3[i]
  <2>1. a \in Seq(Messages) /\ b \in Seq(Messages) /\ Tail3 \in Seq(Messages)
    BY <1>1, <1>2
  <2> QED
    BY <2>1, Joined DEF new
<1>5. Len(a) + Len(b) = 2 + NewWindows
  BY <1>1, <1>2, <1>3
<1> HIDE DEF new
<1>6. Len(new) = 2 + NewWindows + Len(Tail3)
      /\ \A i \in 1..Len(Tail3) : new[2 + NewWindows + i] = Tail3[i]
  BY <1>4, <1>5
<1>7. \A i \in 1..(2 + OldWindows) : new[i] = history[i]
  BY <1>1, <1>4
<1>8. ASSUME NEW n \in (OldWindows + 1)..NewWindows
      PROVE  new[2 + n].kind = "summary" /\ new[2 + n].turns = WindowTurns(n)
  <2> DEFINE i == n - OldWindows
  <2>1. i \in 1..(NewWindows - OldWindows) /\ OldWindows + i = n /\ Len(a) + i = 2 + n
    BY <1>1, <1>3
  <2> HIDE DEF i
  <2>2. new[Len(a) + i] = b[i]
    BY <2>1, <1>2, <1>4
  <2>3. b[i].kind = "summary" /\ b[i].turns = WindowTurns(OldWindows + i)
    BY <2>1, <1>2
  <2> QED
    BY <2>1, <2>2, <2>3
<1>9. CompressedHistory(Singles) = new
  BY <1>1 DEF new
<1> QED
  BY <1>4, <1>6, <1>7, <1>8, <1>9

(* Step 3 keeps exactly the turns that are in no window.                   *)
LEMMA TailPlaces ==
  ASSUME TypeOK, Counters, Shape, InRun, NeedsCompression, args.keep > 0
  PROVE  /\ Len(Tail3) = 2 * (stepCount - NewAppended)
         /\ \A i \in 1..Len(Tail3) : Tail3[i] = history[Len(history) - Len(Tail3) + i]
<1> DEFINE kept == KeptMessages(Singles)
           h == Len(history)
           a == memory.lastAppended
<1>1. /\ args.keep \in Nat /\ stepCount \in Nat /\ a \in Nat
      /\ CompressUntil \in Nat /\ CompressUntil + args.keep = stepCount
      /\ CompressUntil % args.window \in Nat /\ OldWindows \in Nat
      /\ a < NewAppended /\ NewAppended \in Nat /\ NewAppended <= CompressUntil
  <2>1. args.keep \in Nat
    BY ArgsType DEF TypeOK
  <2>2. stepCount \in Nat /\ a \in Nat
    BY ArgumentsAssumption DEF TypeOK
  <2> QED
    BY <2>1, <2>2, CompressNumbers
<1>2. kept = 2 * (args.keep + (CompressUntil % args.window))
  BY SinglesAreAll DEF KeptMessages
<1>3. NewAppended = CompressUntil - (CompressUntil % args.window)
  BY DEF NewAppended
<1>4. kept = 2 * (stepCount - NewAppended) /\ kept \in Nat \ {0}
  BY <1>1, <1>2, <1>3
<1>5. h = 2 + OldWindows + 2 * (stepCount - a) /\ h \in Nat
  <2>1. h = (3 + OldWindows + 2 * (stepCount - a)) - 1
    BY DEF Shape, Place
  <2>2. a <= stepCount
    BY <1>1
  <2> HIDE DEF h, a
  <2> QED
    BY <2>1, <2>2, <1>1
<1> HIDE DEF kept, h, a
<1>6. h > kept + 2
  BY <1>1, <1>4, <1>5
<1>7. Tail3 = SubSeq(history, h - kept + 1, h)
  <2>1. ~(h <= kept + 2) /\ kept # 0 /\ ~(h < kept)
    BY <1>4, <1>5, <1>6
  <2> QED
    BY <2>1, <1>4, <1>5 DEF Tail3, LastMessages, kept, h
<1>8. history \in Seq(Messages) /\ Len(history) = h
  BY DEF TypeOK, Messages, h
<1> DEFINE m == h - kept + 1
<1>9. m \in Nat \ {0} /\ m <= h + 1 /\ h + 1 - m = kept
      /\ \A i \in 1..kept : m + i - 1 = h - kept + i
  BY <1>4, <1>5, <1>6
<1> HIDE DEF m
<1>10. /\ Len(SubSeq(history, m, h)) = h + 1 - m
       /\ \A i \in 1..(h + 1 - m) : SubSeq(history, m, h)[i] = history[m + i - 1]
  BY <1>5, <1>8, <1>9, Part
<1>11. /\ Len(SubSeq(history, m, h)) = kept
       /\ \A i \in 1..kept : SubSeq(history, m, h)[i] = history[h - kept + i]
  BY <1>9, <1>10
<1>12. Tail3 = SubSeq(history, m, h)
  BY <1>7 DEF m
<1> QED
  BY <1>4, <1>8, <1>11, <1>12

LEMMA CompressCounters ==
  ASSUME IInv, CompressHistory, NeedsCompression
  PROVE  TypeOK' /\ Counters' /\ OldWindows' = NewWindows
<1> DEFINE u == CompressUntil
<1>1. TypeOK /\ Counters /\ InRun /\ pc = "turn" /\ pc' = "query" /\ stepCount' = stepCount
      /\ args' = args
  BY DEF IInv, InRun, CompressHistory
<1>2. history' = CompressedHistory(Singles)
      /\ memory' = [lastCompressed |-> u, lastAppended |-> u - (u % args.window),
                    singles |-> Singles]
  <2>1. Len(Singles) = u
    BY <1>1, SinglesAreAll
  <2> QED
    BY <2>1 DEF CompressHistory, Singles
<1>3. args.window \in Nat \ {0} /\ args.keep \in Nat /\ args.trigger \in Nat
  BY <1>1, ArgsType DEF TypeOK
<1>4. /\ u \in Nat /\ u + args.keep = stepCount
      /\ NewWindows \in Nat
      /\ NewAppended = NewWindows * args.window /\ NewAppended \in Nat
      /\ NewAppended <= u /\ u < NewAppended + args.window
  BY <1>1, CompressNumbers
<1>5. memory'.lastCompressed = u /\ memory'.lastAppended = NewAppended
      /\ memory'.singles = Singles
  BY <1>2 DEF NewAppended
<1>6. OldWindows' = NewWindows
  BY <1>1, <1>3, <1>4, <1>5, DivUnique DEF OldWindows
<1>7. history' \in Seq(Messages) /\ Len(history') = 2 + NewWindows + Len(Tail3)
      /\ Len(Tail3) \in Nat
  BY <1>1, <1>2, CompressedPlaces, Pieces
<1>8. TypeOK'
  <2>1. /\ stepCount \in Nat /\ memory'.lastCompressed \in 0..stepCount
        /\ memory'.lastAppended \in 0..stepCount
    <3>1. stepCount \in 0..MaxStepsAbsolute
      BY <1>1 DEF TypeOK
    <3>2. /\ u \in Nat /\ args.keep \in Nat /\ u + args.keep = stepCount
          /\ NewAppended \in Nat /\ NewAppended <= u
      BY <1>3, <1>4
    <3> HIDE DEF u
    <3>3. stepCount \in Nat /\ u \in 0..stepCount /\ NewAppended \in 0..stepCount
      BY ONLY <3>1, <3>2, ArgumentsAssumption
    <3> QED
      BY ONLY <1>5, <3>3
  <2>2. memory'.singles \in Seq(Turns)
    BY <1>1, <1>5, SinglesAreAll
  <2> QED
    BY <1>1, <1>7, <2>1, <2>2 DEF CompressHistory, TypeOK, Messages, loopVars
<1>9. Counters'
  <2>1. memory'.singles = [i \in 1..memory'.lastCompressed |-> i - 1]
    BY <1>1, <1>5, SinglesAreAll
  <2>2. memory'.lastAppended = OldWindows' * args'.window
    BY <1>1, <1>4, <1>5, <1>6
  <2>3. memory'.lastAppended <= memory'.lastCompressed
        /\ memory'.lastCompressed < memory'.lastAppended + args'.window
    BY <1>1, <1>4, <1>5
  <2>4. CompressUntil' = u /\ args'.trigger <= stepCount'
    BY <1>1 DEF CompressUntil, NeedsCompression
  <2>5. 2 + OldWindows' <= Len(history')
    BY <1>4, <1>6, <1>7
  <2>6. ~NeedsCompression'
    BY <2>3, <2>4, <1>1, <1>3, <1>4, <1>5 DEF NeedsCompression
  <2> QED
    BY <2>1, <2>2, <2>3, <2>4, <2>5, <2>6, <1>4, <1>5 DEF Counters
<1> QED
  BY <1>6, <1>8, <1>9

LEMMA CompressShape ==
  ASSUME IInv, CompressHistory, NeedsCompression
  PROVE  Shape'
<1> SUFFICES ASSUME args.keep > 0 PROVE Shape'
  BY DEF Shape, CompressHistory
<1> DEFINE W == OldWindows
           V == NewWindows
           a == memory.lastAppended
           b == NewAppended
           new == history'
<1>1. TypeOK /\ Counters /\ Shape /\ InRun /\ stepCount' = stepCount /\ args' = args
  BY DEF IInv, InRun, CompressHistory
<1>2. OldWindows' = V /\ memory'.lastAppended = b /\ new = CompressedHistory(Singles)
  <2>1. Len(Singles) = CompressUntil
    BY <1>1, SinglesAreAll
  <2> QED
    BY <2>1, CompressCounters DEF CompressHistory, Singles, NewAppended
<1>3. /\ Len(new) = 2 + V + Len(Tail3)
      /\ \A i \in 1..(2 + W) : new[i] = history[i]
      /\ \A n \in (W + 1)..V : new[2 + n].kind = "summary" /\ new[2 + n].turns = WindowTurns(n)
      /\ \A i \in 1..Len(Tail3) : new[2 + V + i] = Tail3[i]
  BY <1>1, <1>2, CompressedPlaces
<1>4. /\ Len(Tail3) = 2 * (stepCount - b)
      /\ \A i \in 1..Len(Tail3) : Tail3[i] = history[Len(history) - Len(Tail3) + i]
  BY <1>1, TailPlaces
<1>5. /\ W \in Nat /\ V \in Nat /\ W < V /\ a \in Nat /\ b \in Nat /\ stepCount \in Nat
      /\ a < b /\ b <= stepCount
  <2>1. a \in Nat /\ stepCount \in Nat /\ args.keep \in Nat
    BY <1>1, ArgsType, ArgumentsAssumption DEF TypeOK
  <2>2. /\ W \in Nat /\ V \in Nat /\ W < V /\ b \in Nat /\ a < b
        /\ b <= CompressUntil /\ CompressUntil \in Nat /\ CompressUntil + args.keep = stepCount
    BY <1>1, CompressNumbers
  <2> HIDE DEF W, V, a, b
  <2> QED
    BY <2>1, <2>2
<1>6. Len(history) = (3 + W + 2 * (stepCount - a)) - 1
  BY <1>1 DEF Shape, Place
<1>7. new[1].kind = "prompt" /\ new[2].kind = "prompt"
  BY <1>1, <1>3, <1>5 DEF Shape
<1>8. ASSUME NEW n \in 1..V
      PROVE  new[2 + n].kind = "summary" /\ new[2 + n].turns = WindowTurns(n)
  <2>1. CASE n <= W
    <3>1. 2 + n \in 1..(2 + W) /\ n \in 1..W
      BY <2>1, <1>5
    <3>2. history[2 + n].kind = "summary" /\ history[2 + n].turns = WindowTurns(n)
      BY <3>1, <1>1 DEF Shape, IsSummary
    <3> QED
      BY <3>1, <3>2, <1>3
  <2>2. CASE ~(n <= W)
    BY <2>2, <1>3, <1>5
  <2> QED
    BY <2>1, <2>2
<1>9. ASSUME NEW t \in b..(stepCount - 1)
      PROVE  LET i == 3 + V + 2 * (t - b)
             IN  /\ new[i].kind = "assistant" /\ new[i].turns = <<t>>
                 /\ new[i + 1].kind = "observation" /\ new[i + 1].turns = <<t>>
  <2> DEFINE j == 1 + 2 * (t - b)
             i == 3 + V + 2 * (t - b)
             q == 3 + W + 2 * (t - a)
  <2>1. t \in a..(stepCount - 1)
    BY <1>5
  <2>2. InFull(q, t)
    BY <2>1, <1>1 DEF Shape, Place
  <2> HIDE DEF W, V, a, b, new
  <2>3. /\ j \in 1..Len(Tail3) /\ j + 1 \in 1..Len(Tail3)
        /\ 2 + V + j = i /\ 2 + V + (j + 1) = i + 1
        /\ Len(history) - Len(Tail3) + j = q /\ Len(history) - Len(Tail3) + (j + 1) = q + 1
    <3> DEFINE x == t - b
               y == b - a
               z == stepCount - t
    <3>1. x \in Nat /\ y \in Nat /\ z \in Nat \ {0} /\ t - a = x + y
          /\ stepCount - b = x + z /\ stepCount - a = x + y + z
      BY <1>5, <2>1
    <3> HIDE DEF x, y, z
    <3>2. /\ Len(Tail3) = 2 * (x + z) /\ Len(history) = (3 + W + 2 * (x + y + z)) - 1
      BY <3>1, <1>4, <1>6
    <3>3. j = 1 + 2 * x /\ i = 3 + V + 2 * x /\ q = 3 + W + 2 * (x + y)
      BY <3>1 DEF x
    <3> HIDE DEF i, j, q
    <3> QED
      BY <3>1, <3>2, <3>3, <1>5
  <2>4. new[i] = history[q] /\ new[i + 1] = history[q + 1]
    <3> HIDE DEF i, j, q
    <3>1. new[2 + V + j] = Tail3[j] /\ new[2 + V + (j + 1)] = Tail3[j + 1]
      BY <1>3, <2>3
    <3>2. Tail3[j] = history[Len(history) - Len(Tail3) + j]
          /\ Tail3[j + 1] = history[Len(history) - Len(Tail3) + (j + 1)]
      BY <1>4, <2>3
    <3> QED
      BY <3>1, <3>2, <2>3
  <2> QED
    BY <2>2, <2>4 DEF InFull
<1>10. Len(new) = (3 + V + 2 * (stepCount - b)) - 1
  <2> HIDE DEF W, V, a, b, new
  <2> QED
    BY <1>3, <1>4, <1>5
<1> QED
  BY <1>1, <1>2, <1>7, <1>8, <1>9, <1>10 DEF Shape, Place, InFull, IsSummary, WindowTurns

(* What leaves the history and its counters alone keeps the shape.        *)
LEMMA ShapeKept ==
  ASSUME Shape, UNCHANGED <<args, stepCount, history, memory>>, InRun' => InRun
  PROVE  Shape'
<1>1. OldWindows' = OldWindows
  BY DEF OldWindows
<1> QED
  BY <1>1, ZenonT(30) DEF Shape, Place, WindowTurns, IsSummary, InFull

LEMMA CompressInvariant ==
  ASSUME IInv, CompressHistory
  PROVE  IInv'
<1>1. Loops'
  BY DEF IInv, Loops, CompressHistory, loopVars
<1>2. CASE NeedsCompression
  BY <1>1, <1>2, CompressCounters, CompressShape DEF IInv
<1>3. CASE ~NeedsCompression
  <2>1. UNCHANGED <<args, stepCount, history, memory, loopVars, chosen, envDone,
                    container, submitted, exitReason>> /\ pc = "turn" /\ pc' = "query"
    BY <1>3 DEF CompressHistory
  <2>2. TypeOK'
    BY <2>1 DEF IInv, TypeOK, loopVars
  <2>3. Counters'
    BY <2>1, <1>3 DEF IInv, Counters, InRun, OldWindows, CompressUntil, NeedsCompression
  <2>4. Shape'
    BY <2>1, ShapeKept DEF IInv, InRun
  <2> QED
    BY <1>1, <2>2, <2>3, <2>4 DEF IInv
<1> QED
  BY <1>2, <1>3
-----------------------------------------------------------------------------
(* A step ends the run with a reason, or it was not the last one allowed.  *)
LEMMA ExitType ==
  ASSUME TypeOK, NEW done \in BOOLEAN, NEW overTokens \in BOOLEAN, NEW overTime \in BOOLEAN
  PROVE  LET exit == ExitReason(done, overTokens, overTime)
         IN  exit \in ExitReasons \cup {"none"} /\ (exit = "none" => ~LastStep)
<1> DEFINE remaining == MaxSteps - stepCount
<1>1. remaining > 0 \/ remaining = 0 \/ remaining < 0
  BY ArgumentsAssumption DEF TypeOK
<1>2. LastStep \in BOOLEAN
  BY DEF LastStep
<1> QED
  BY <1>1, <1>2 DEF ExitReason, ExitReasons

LEMMA TurnInvariant ==
  ASSUME IInv, NEW submits \in BOOLEAN, NEW raises \in BOOLEAN,
         NEW overTokens \in BOOLEAN, NEW overTime \in BOOLEAN,
         Turn(submits, raises, overTokens, overTime)
  PROVE  IInv'
<1> DEFINE done == StepDone(submits, raises)
           exit == ExitReason(done /\ ~raises, overTokens, overTime)
           m1 == Message("assistant", <<stepCount>>)
           m2 == Message("observation", <<stepCount>>)
<1>1. /\ pc = "query" /\ envDone' = done /\ submitted' = submits
      /\ stepCount' = stepCount + 1 /\ history' = history \o <<m1, m2>>
      /\ exitReason' = exit /\ pc' = IF exit = "none" THEN "turn" ELSE "ended"
      /\ UNCHANGED <<args, loopVars, chosen, container, memory>>
  BY DEF Turn
<1>2. TypeOK /\ Counters /\ Loops /\ Shape /\ InRun
  BY <1>1 DEF IInv, InRun
<1>3. done \in BOOLEAN /\ (done /\ ~raises) \in BOOLEAN
  BY <1>2 DEF TypeOK, StepDone
<1>4. exit \in ExitReasons \cup {"none"} /\ (exit = "none" => ~LastStep)
  BY <1>2, <1>3, ExitType
<1>5. stepCount \in Nat /\ MaxStepsAbsolute \in Nat /\ stepCount < MaxStepsAbsolute
      /\ stepCount \in Turns
  BY <1>1, <1>2, ArgumentsAssumption DEF TypeOK, Loops, Turns
<1>6. m1 \in Messages /\ m2 \in Messages
      /\ m1.kind = "assistant" /\ m1.turns = <<stepCount>>
      /\ m2.kind = "observation" /\ m2.turns = <<stepCount>>
  <2>1. <<stepCount>> \in Seq(Turns) /\ stepCount \in 0..MaxStepsAbsolute
    BY <1>5
  <2> QED
    BY <2>1 DEF Message, Messages
<1>7. history \in Seq(Messages)
  BY <1>2 DEF TypeOK, Messages
<1> HIDE DEF done, exit, m1, m2
<1>8. /\ history' \in Seq(Messages) /\ Len(history') = Len(history) + 2
      /\ \A i \in 1..Len(history) : history'[i] = history[i]
      /\ history'[Len(history) + 1] = m1 /\ history'[Len(history) + 2] = m2
  <2>1. <<m1, m2>> \in Seq(Messages) /\ Len(<<m1, m2>>) = 2
        /\ <<m1, m2>>[1] = m1 /\ <<m1, m2>>[2] = m2
    BY <1>6
  <2> QED
    BY <2>1, <1>1, <1>7
<1>9. Loops'
  BY <1>1, <1>2, <1>4, <1>5 DEF Loops, LastStep, loopVars
<1>10. TypeOK'
  <2>1. history' \in Seq([kind : {"prompt", "summary", "assistant", "observation"},
                         turns : Seq(Turns), made : 0..MaxStepsAbsolute])
    BY <1>8 DEF Messages
  <2>2. stepCount' \in 0..MaxStepsAbsolute /\ memory'.lastCompressed \in 0..stepCount'
        /\ memory'.lastAppended \in 0..stepCount'
    <3>1. memory.lastCompressed \in 0..stepCount /\ memory.lastAppended \in 0..stepCount
      BY <1>2 DEF TypeOK
    <3> QED
      BY <3>1, <1>1, <1>5
  <2>3. pc' \in {"turn", "ended"}
    BY <1>1
  <2> QED
    BY <1>1, <1>2, <1>3, <1>4, <2>1, <2>2, <2>3 DEF TypeOK, loopVars
<1>11. OldWindows' = OldWindows /\ OldWindows \in Nat
  <2>1. args.window \in Nat \ {0} /\ memory.lastAppended \in Nat
    BY <1>2, <1>5, ArgsType DEF TypeOK
  <2>2. memory.lastAppended \div args.window \in Nat
    BY <2>1, DivMod
  <2> QED
    BY <1>1, <2>2 DEF OldWindows
<1>12. Counters'
  <2>1. memory.lastCompressed \in Nat /\ args.keep \in Nat /\ args.trigger \in Nat
        /\ Len(history) \in Nat
    BY <1>2, <1>5, <1>7, ArgsType DEF TypeOK
  <2>2. CompressUntil' = CompressUntil + 1 /\ CompressUntil \in Int
    BY <1>1, <1>5, <2>1 DEF CompressUntil
  <2>3. pc' # "query"
    BY <1>1
  <2> QED
    BY <1>1, <1>2, <1>5, <1>8, <1>11, <2>1, <2>2, <2>3 DEF Counters
<1>13. ASSUME args.keep > 0
       PROVE  Shape'
  <2> DEFINE a == memory.lastAppended
             P(t) == 3 + OldWindows + 2 * (t - a)
  <2>1. a \in Nat /\ a <= stepCount /\ Len(history) = P(stepCount) - 1
        /\ history[1].kind = "prompt" /\ history[2].kind = "prompt"
    BY <1>2, <1>5, <1>13 DEF TypeOK, Shape, Place
  <2>2. \A n \in 1..OldWindows : history[2 + n].kind = "summary"
                               /\ history[2 + n].turns = WindowTurns(n)
    BY <1>2, <1>13 DEF Shape, IsSummary
  <2>3. \A t \in a..(stepCount - 1) :
          /\ history[P(t)].kind = "assistant" /\ history[P(t)].turns = <<t>>
          /\ history[P(t) + 1].kind = "observation" /\ history[P(t) + 1].turns = <<t>>
    BY <1>2, <1>13 DEF Shape, InFull, Place
  <2> HIDE DEF a
  <2>4. Len(history') = P(stepCount + 1) - 1
    BY <1>5, <1>8, <1>11, <2>1
  <2>5. history'[1].kind = "prompt" /\ history'[2].kind = "prompt"
    <3>1. 1 \in 1..Len(history) /\ 2 \in 1..Len(history)
      BY <1>5, <1>11, <2>1
    <3> QED
      BY <3>1, <2>1, <1>8
  <2>6. \A n \in 1..OldWindows : history'[2 + n].kind = "summary"
                               /\ history'[2 + n].turns = WindowTurns(n)
    <3> SUFFICES ASSUME NEW n \in 1..OldWindows
                 PROVE  history'[2 + n] = history[2 + n]
      BY <2>2
    <3>1. 2 + n \in 1..Len(history)
      BY <1>5, <1>11, <2>1
    <3> QED
      BY <3>1, <1>8
  <2>7. ASSUME NEW t \in a..stepCount
        PROVE  /\ history'[P(t)].kind = "assistant" /\ history'[P(t)].turns = <<t>>
               /\ history'[P(t) + 1].kind = "observation" /\ history'[P(t) + 1].turns = <<t>>
    <3>1. CASE t = stepCount
      <4>1. P(t) = Len(history) + 1 /\ P(t) + 1 = Len(history) + 2
        BY <3>1, <1>5, <1>11, <2>1
      <4> QED
        BY <3>1, <4>1, <1>6, <1>8
    <3>2. CASE t # stepCount
      <4>1. t \in a..(stepCount - 1)
        BY <3>2, <1>5, <2>1
      <4>2. P(t) \in 1..Len(history) /\ P(t) + 1 \in 1..Len(history)
        BY <4>1, <1>5, <1>11, <2>1
      <4> HIDE DEF P
      <4> QED
        BY <4>1, <4>2, <2>3, <1>8
    <3> QED
      BY <3>1, <3>2
  <2>8. stepCount' - 1 = stepCount
    BY <1>1, <1>5
  <2> QED
    BY <1>1, <1>11, <2>4, <2>5, <2>6, <2>7, <2>8, ZenonT(30)
    DEF Shape, Place, InFull, IsSummary, WindowTurns, a
<1> QED
  BY <1>1, <1>9, <1>10, <1>12, <1>13 DEF IInv, Shape
-----------------------------------------------------------------------------
(* A run starts with the two prompts and an empty memory.                  *)
LEMMA StartInvariant ==
  ASSUME IInv, StartRun
  PROVE  IInv'
<1>1. /\ history' = <<Prompt, Prompt>> /\ stepCount' = 0 /\ pc = "setup" /\ pc' = "turn"
      /\ memory'.lastCompressed = 0 /\ memory'.lastAppended = 0 /\ memory'.singles = <<>>
      /\ exitReason' = "none" /\ submitted' = FALSE
      /\ UNCHANGED <<args, loopVars, chosen, envDone, container>>
  BY DEF StartRun, EmptyMemory
<1>2. TypeOK /\ Loops /\ args.window \in Nat \ {0} /\ MaxStepsAbsolute \in Nat \ {0}
  BY ArgsType, ArgumentsAssumption DEF IInv, TypeOK
<1>3. /\ <<Prompt, Prompt>> \in Seq(Messages) /\ Len(<<Prompt, Prompt>>) = 2
      /\ <<Prompt, Prompt>>[1].kind = "prompt" /\ <<Prompt, Prompt>>[2].kind = "prompt"
  <2>1. Prompt \in Messages
    <3>1. <<>> \in Seq(Turns) /\ 0 \in 0..MaxStepsAbsolute
      BY <1>2
    <3> QED
      BY <3>1 DEF Prompt, Messages
  <2>2. Prompt.kind = "prompt"
    BY DEF Prompt
  <2> QED
    BY <2>1, <2>2
<1>4. OldWindows' = 0
  <2>1. 0 \div args.window = 0
    BY <1>2
  <2> QED
    BY <1>1, <2>1 DEF OldWindows
<1>5. TypeOK'
  <2>1. stepCount' \in 0..MaxStepsAbsolute /\ memory'.lastCompressed \in 0..stepCount'
        /\ memory'.lastAppended \in 0..stepCount' /\ memory'.singles \in Seq(Turns)
    BY <1>1, <1>2
  <2> QED
    BY <1>1, <1>2, <1>3, <2>1 DEF TypeOK, loopVars, Messages
<1>6. Loops'
  BY <1>1, <1>2 DEF Loops, loopVars
<1>7. Counters'
  <2>1. memory'.singles = [i \in 1..memory'.lastCompressed |-> i - 1]
    BY <1>1
  <2>2. memory'.lastAppended = OldWindows' * args'.window
    BY <1>1, <1>2, <1>4
  <2> QED
    BY <1>1, <1>2, <1>3, <1>4, <2>1, <2>2 DEF Counters
<1>8. Shape'
  BY <1>1, <1>3, <1>4 DEF Shape, Place
<1> QED
  BY <1>5, <1>6, <1>7, <1>8 DEF IInv

(* min(trajectories, key=num_steps) is one of the trajectories.            *)
LEMMA ShortestIsOne ==
  ASSUME NEW ts \in Seq(Trajectories), Len(ts) > 0
  PROVE  Shortest(ts) \in Trajectories
<1> DEFINE S == {ts[i].steps : i \in 1..Len(ts)}
           I == {i \in DOMAIN ts : \A j \in DOMAIN ts : ts[i].steps <= ts[j].steps}
<1>1. DOMAIN ts = 1..Len(ts) /\ Len(ts) \in Nat /\ \A i \in 1..Len(ts) : ts[i] \in Trajectories
  OBVIOUS
<1>2. \A i \in 1..Len(ts) : ts[i].steps \in Nat
  BY <1>1, ArgumentsAssumption DEF Trajectories
<1>3. S \in SUBSET Nat /\ S # {}
  <2>1. 1 \in 1..Len(ts)
    BY <1>1
  <2> QED
    BY <2>1, <1>2
<1>4. Min(S) \in S /\ \A n \in S : Min(S) <= n
  BY <1>3, LeastNat
<1>5. PICK i \in 1..Len(ts) : ts[i].steps = Min(S)
  BY <1>4
<1>6. i \in I
  BY <1>1, <1>4, <1>5
<1>7. I \in SUBSET Nat /\ I # {}
  BY <1>1, <1>6
<1>8. Min(I) \in I
  BY <1>7, LeastNat
<1> QED
  BY <1>1, <1>8 DEF Shortest

LEMMA ReturnInvariant ==
  ASSUME IInv, RunReturns
  PROVE  IInv'
<1> DEFINE t == [exit |-> exitReason, steps |-> stepCount, submitted |-> submitted]
           ts == Append(trajectories, t)
<1>1. TypeOK /\ Loops /\ pc = "ended" /\ UNCHANGED <<args, envDone, container, runVars>>
  BY DEF IInv, RunReturns
<1>2. t \in Trajectories
  BY <1>1 DEF TypeOK, Loops, Trajectories
<1>3. /\ args.iterations \in Nat \ {0} /\ args.restarts \in Nat \ {0}
      /\ iteration \in Nat /\ iteration < args.iterations
      /\ idx \in Nat /\ idx < args.restarts
      /\ trajectories \in Seq(Trajectories) /\ Len(trajectories) = iteration
  BY <1>1, ArgsType DEF TypeOK, Loops
<1> HIDE DEF t
<1>4. ts \in Seq(Trajectories) /\ Len(ts) = iteration + 1
  BY <1>2, <1>3
<1>5. Shortest(ts) \in Trajectories
  <2> HIDE DEF ts
  <2>1. Len(ts) > 0
    BY <1>3, <1>4
  <2> QED
    BY <2>1, <1>4, ShortestIsOne
<1>6. \A x \in Trajectories : <<x>> \in Seq(Trajectories) /\ Len(<<x>>) = 1
  OBVIOUS
<1> HIDE DEF ts
<1>7. /\ pc' \in {"setup", "reward"}
      /\ iteration' \in 0..(args.iterations - 1) /\ idx' \in 0..(args.restarts - 1)
      /\ trajectories' \in Seq(Trajectories) /\ Len(trajectories') <= args.iterations
      /\ chosen' \in Seq(Trajectories) /\ Len(chosen') <= 1
      /\ pc' = "setup" => Len(trajectories') = iteration'
  <2>1. chosen \in Seq(Trajectories) /\ Len(chosen) <= 1
    BY <1>1 DEF TypeOK
  <2>2. CASE /\ idx < args.restarts - 1 /\ idx' = idx + 1 /\ pc' = "setup"
             /\ UNCHANGED <<iteration, trajectories, chosen>>
    BY <2>1, <2>2, <1>3
  <2>3. CASE /\ chosen' = <<t>> /\ pc' = "reward"
             /\ UNCHANGED <<iteration, idx, trajectories>>
    BY <2>3, <1>2, <1>3, <1>6
  <2>4. CASE /\ trajectories' = ts /\ iteration < args.iterations - 1
             /\ iteration' = iteration + 1 /\ idx' = 0 /\ pc' = "setup" /\ UNCHANGED chosen
    BY <2>1, <2>4, <1>3, <1>4
  <2>5. CASE /\ trajectories' = ts /\ chosen' = <<Shortest(ts)>> /\ pc' = "reward"
             /\ UNCHANGED <<iteration, idx>>
    BY <2>5, <1>3, <1>4, <1>5, <1>6
  <2> QED
    BY <2>2, <2>3, <2>4, <2>5 DEF RunReturns, t, ts
<1>8. TypeOK'
  BY <1>1, <1>7 DEF TypeOK, runVars
<1> QED
  BY <1>1, <1>7, <1>8 DEF IInv, Loops, Counters, Shape, InRun, runVars

(* The other steps end the run, or change nothing the invariant is about.  *)
LEMMA EndInvariant ==
  ASSUME IInv, QueryFails \/ RunRaises \/ RewardComputed \/ RewardRaises
  PROVE  IInv'
<1>1. CASE QueryFails
  <2>1. /\ pc = "query" /\ pc' = "ended" /\ exitReason' = "llm_query_error"
        /\ UNCHANGED <<args, loopVars, chosen, envDone, container, history, stepCount,
                      submitted, memory>>
    BY <1>1 DEF QueryFails
  <2>2. TypeOK' /\ Loops'
    BY <2>1 DEF IInv, TypeOK, Loops, loopVars, ExitReasons
  <2>3. Counters' /\ Shape'
    <3>1. Counters'
      BY <2>1 DEF IInv, Counters, InRun, OldWindows, CompressUntil
    <3> QED
      BY <2>1, <3>1, ShapeKept DEF IInv, InRun
  <2> QED
    BY <2>2, <2>3 DEF IInv
<1>2. CASE RunRaises \/ RewardComputed \/ RewardRaises
  <2>1. /\ pc' \in {"raised", "returned"} /\ container' \in {container, FALSE}
        /\ UNCHANGED <<args, loopVars, chosen, envDone, runVars>>
    BY <1>2 DEF RunRaises, RewardComputed, RewardRaises
  <2> QED
    BY <2>1 DEF IInv, TypeOK, Loops, Counters, Shape, InRun, loopVars, runVars
<1> QED
  BY <1>1, <1>2

LEMMA StutterInvariant ==
  ASSUME IInv, UNCHANGED vars
  PROVE  IInv'
<1>1. UNCHANGED <<args, pc, iteration, idx, trajectories, chosen, envDone, container, history,
                  stepCount, submitted, exitReason, memory>>
  BY DEF vars, loopVars, runVars
<1>2. TypeOK' /\ Loops'
  BY <1>1 DEF IInv, TypeOK, Loops
<1>3. Counters'
  BY <1>1 DEF IInv, Counters, InRun, OldWindows, CompressUntil, NeedsCompression
<1>4. Shape'
  BY <1>1, ShapeKept DEF IInv, InRun
<1> QED
  BY <1>2, <1>3, <1>4 DEF IInv

LEMMA NextInvariant == IInv /\ [Next]_vars => IInv'
<1> SUFFICES ASSUME IInv, [Next]_vars PROVE IInv'
  OBVIOUS
<1>1. CASE StartRun
  BY <1>1, StartInvariant
<1>2. CASE CompressHistory
  BY <1>2, CompressInvariant
<1>3. CASE \E submits, raises, overTokens, overTime \in BOOLEAN :
             Turn(submits, raises, overTokens, overTime)
  BY <1>3, TurnInvariant
<1>4. CASE RunReturns
  BY <1>4, ReturnInvariant
<1>5. CASE QueryFails \/ RunRaises \/ RewardComputed \/ RewardRaises
  BY <1>5, EndInvariant
<1>6. CASE UNCHANGED vars
  BY <1>6, StutterInvariant
<1> QED
  BY <1>1, <1>2, <1>3, <1>4, <1>5, <1>6 DEF Next

(* The invariant holds in every reachable state.                           *)
THEOREM HistoryInvariant == Spec => []IInv
<1> QED
  BY InitInv, NextInvariant, PTL DEF Spec

(* Every variable keeps its type, whatever the arguments.                  *)
THEOREM TypeCorrect == Spec => []TypeOK
<1>1. IInv => TypeOK
  BY DEF IInv
<1> QED
  BY <1>1, HistoryInvariant, PTL
-----------------------------------------------------------------------------
(* What a message tells, by its place.                                     *)
LEMMA Kinds ==
  ASSUME IInv, InRun, args.keep > 0
  PROVE  /\ OldWindows \in Nat /\ memory.lastAppended \in Nat /\ stepCount \in Nat
         /\ memory.lastAppended <= stepCount
         /\ DOMAIN history = 1..(2 + OldWindows + 2 * (stepCount - memory.lastAppended))
         /\ Len(history) = 2 + OldWindows + 2 * (stepCount - memory.lastAppended)
         /\ \A i \in DOMAIN history :
              \/ i <= 2 /\ history[i].kind = "prompt"
              \/ \E n \in 1..OldWindows :
                   i = 2 + n /\ history[i].kind = "summary" /\ history[i].turns = WindowTurns(n)
              \/ \E t \in memory.lastAppended..(stepCount - 1) :
                   \/ i = Place(t) /\ history[i].kind = "assistant" /\ history[i].turns = <<t>>
                   \/ i = Place(t) + 1 /\ history[i].kind = "observation"
<1> DEFINE a == memory.lastAppended
           W == OldWindows
<1>1. a \in Nat /\ stepCount \in Nat /\ a <= stepCount /\ history \in Seq(Messages)
      /\ args.window \in Nat \ {0}
  BY ArgsType, ArgumentsAssumption DEF IInv, TypeOK, Messages
<1>2. W \in Nat
  BY <1>1, DivMod DEF OldWindows
<1>3. Len(history) = (3 + W + 2 * (stepCount - a)) - 1
  BY DEF IInv, Shape, Place
<1>4. /\ history[1].kind = "prompt" /\ history[2].kind = "prompt"
      /\ \A n \in 1..W : history[2 + n].kind = "summary" /\ history[2 + n].turns = WindowTurns(n)
      /\ \A t \in a..(stepCount - 1) : InFull(3 + W + 2 * (t - a), t)
  BY DEF IInv, Shape, Place, IsSummary
<1> HIDE DEF a, W
<1>5. Len(history) = 2 + W + 2 * (stepCount - a)
  BY <1>1, <1>2, <1>3
<1>6. DOMAIN history = 1..(2 + W + 2 * (stepCount - a))
  <2>1. DOMAIN history = 1..Len(history)
    BY <1>1
  <2> QED
    BY <2>1, <1>5
<1>7. ASSUME NEW i \in DOMAIN history
      PROVE  \/ i <= 2 /\ history[i].kind = "prompt"
             \/ \E n \in 1..W :
                  i = 2 + n /\ history[i].kind = "summary" /\ history[i].turns = WindowTurns(n)
             \/ \E t \in a..(stepCount - 1) :
                  \/ i = 3 + W + 2 * (t - a)
                     /\ history[i].kind = "assistant" /\ history[i].turns = <<t>>
                  \/ i = 3 + W + 2 * (t - a) + 1 /\ history[i].kind = "observation"
  <2>1. i \in 1..(2 + W + 2 * (stepCount - a))
    BY <1>6
  <2>2. CASE i <= 2
    BY <2>1, <2>2, <1>4, <1>1, <1>2
  <2>3. CASE i > 2 /\ i <= 2 + W
    <3>1. i - 2 \in 1..W /\ i = 2 + (i - 2)
      BY <2>1, <2>3, <1>1, <1>2
    <3> QED
      BY <3>1, <1>4
  <2>4. CASE i > 2 + W
    <3> DEFINE x == i - (3 + W)
               t == a + x \div 2
    <3>1. x \in Nat /\ x < 2 * (stepCount - a)
      BY <2>1, <2>4, <1>1, <1>2
    <3> HIDE DEF x
    <3>2. x \div 2 \in Nat /\ (x = 2 * (x \div 2) \/ x = 2 * (x \div 2) + 1)
      BY <3>1
    <3>3. t \in a..(stepCount - 1) /\ t - a = x \div 2
      BY <3>1, <3>2, <1>1
    <3> HIDE DEF t
    <3>4. i = 3 + W + 2 * (t - a) \/ i = 3 + W + 2 * (t - a) + 1
      <4> DEFINE y == x \div 2
      <4>1. y \in Nat /\ (x = 2 * y \/ x = 2 * y + 1) /\ t - a = y
        BY <3>2, <3>3
      <4> HIDE DEF y
      <4>2. i = 3 + W + x
        BY <2>1, <1>1, <1>2 DEF x
      <4> QED
        BY <4>1, <4>2, <3>1, <1>2
    <3>5. InFull(3 + W + 2 * (t - a), t)
      BY <3>3, <1>4
    <3> QED
      BY <3>3, <3>4, <3>5 DEF InFull
  <2>5. i <= 2 \/ (i > 2 /\ i <= 2 + W) \/ i > 2 + W
    BY <2>1, <1>2
  <2> QED
    BY <2>2, <2>3, <2>4, <2>5
<1> QED
  BY <1>1, <1>2, <1>5, <1>6, <1>7 DEF a, W, Place

LEMMA KeepIsPositive ==
  ASSUME IInv, 0 \notin Keeps
  PROVE  args.keep > 0
<1>1. args.keep \in Keeps
  BY DEF IInv, TypeOK, Args
<1>2. args.keep \in Nat /\ args.keep # 0
  BY <1>1, ArgumentsAssumption
<1> QED
  BY <1>2

LEMMA RecentProof ==
  ASSUME IInv, 0 \notin Keeps
  PROVE  RecentInFull
<1> SUFFICES ASSUME InRun, NEW k \in 1..Min({args.keep, stepCount})
             PROVE  InFull(Len(history) - 2 * k + 1, stepCount - k)
  BY DEF RecentInFull
<1> DEFINE a == memory.lastAppended
           W == OldWindows
<1>1. args.keep > 0 /\ args.keep \in Nat
  BY KeepIsPositive, ArgsType DEF IInv, TypeOK
<1>2. /\ W \in Nat /\ a \in Nat /\ stepCount \in Nat /\ a <= stepCount
      /\ Len(history) = 2 + W + 2 * (stepCount - a)
  BY <1>1, Kinds
<1>3. k \in Nat \ {0} /\ k <= args.keep /\ k <= stepCount
  <2> DEFINE T == {args.keep, stepCount}
  <2>1. Min(T) \in T /\ \A n \in T : Min(T) <= n
    BY <1>1, <1>2, LeastNat
  <2>2. Min(T) \in Nat /\ Min(T) <= args.keep /\ Min(T) <= stepCount
    BY <2>1, <1>1, <1>2
  <2> QED
    BY <2>2, <1>1, <1>2
<1>4. a <= stepCount - k
  <2>1. memory.lastCompressed \in Nat /\ a <= memory.lastCompressed
        /\ (memory.lastCompressed > 0 => memory.lastCompressed <= stepCount - args.keep)
    <3>1. memory.lastCompressed \in 0..stepCount
      BY DEF IInv, TypeOK
    <3>2. a <= memory.lastCompressed
          /\ (memory.lastCompressed > 0 => memory.lastCompressed <= CompressUntil)
      BY DEF IInv, Counters
    <3> QED
      BY <3>1, <3>2, <1>2 DEF CompressUntil
  <2> HIDE DEF a
  <2> QED
    BY <2>1, <1>1, <1>2, <1>3
<1>5. InFull(3 + W + 2 * ((stepCount - k) - a), stepCount - k)
  <2>1. stepCount - k \in a..(stepCount - 1)
    BY <1>2, <1>3, <1>4
  <2> QED
    BY <2>1, <1>1 DEF IInv, Shape, Place
<1>6. Len(history) - 2 * k + 1 = 3 + W + 2 * ((stepCount - k) - a)
  <2> HIDE DEF a, W
  <2> QED
    BY <1>2, <1>3
<1> QED
  BY <1>5, <1>6

(* There are no more full turns in the history than turns in no window.    *)
LEMMA FullTurns ==
  ASSUME IInv, InRun, args.keep > 0
  PROVE  LET inFull == {i \in DOMAIN history : history[i].kind = "assistant"}
         IN  Cardinality(inFull) \in Nat
             /\ Cardinality(inFull) <= stepCount - memory.lastAppended
<1> DEFINE a == memory.lastAppended
           S == a..(stepCount - 1)
           T == {Place(t) : t \in S}
           f == [t \in S |-> Place(t)]
           inFull == {i \in DOMAIN history : history[i].kind = "assistant"}
<1>1. a \in Nat /\ stepCount \in Nat /\ a <= stepCount
  BY Kinds
<1>2. inFull \subseteq T
  BY Kinds
<1>3. IsFiniteSet(S) /\ Cardinality(S) = stepCount - a
  <2>1. IsFiniteSet(S)
        /\ Cardinality(S) = IF a > stepCount - 1 THEN 0 ELSE (stepCount - 1) - a + 1
    <3> DEFINE b == stepCount - 1
    <3>1. a \in Int /\ b \in Int
      BY <1>1
    <3> HIDE DEF a, b
    <3>2. IsFiniteSet(a..b) /\ Cardinality(a..b) = IF a > b THEN 0 ELSE b - a + 1
      BY <3>1, FS_Interval
    <3> QED
      BY <3>2 DEF b
  <2> QED
    BY <2>1, <1>1
<1>4. f \in Surjection(S, T)
  BY DEF Surjection
<1> HIDE DEF S, T, f, inFull, a
<1>5. IsFiniteSet(T) /\ Cardinality(T) <= Cardinality(S)
  BY <1>3, <1>4, FS_Surjection
<1>6. IsFiniteSet(inFull) /\ Cardinality(inFull) <= Cardinality(T)
  BY <1>2, <1>5, FS_Subset
<1>7. Cardinality(inFull) \in Nat /\ Cardinality(T) \in Nat /\ Cardinality(S) \in Nat
  BY <1>3, <1>5, <1>6, FS_CardinalityType
<1> QED
  BY <1>1, <1>3, <1>5, <1>6, <1>7 DEF inFull, a

LEMMA MaxOfTwo ==
  ASSUME NEW x \in Nat, NEW y \in Nat
  PROVE  Max({x, y}) \in Nat /\ x <= Max({x, y}) /\ y <= Max({x, y})
<1>1. \E m \in {x, y} : \A n \in {x, y} : n <= m
  <2>1. CASE x <= y
    BY <2>1
  <2>2. CASE y <= x
    BY <2>2
  <2> QED
    BY <2>1, <2>2
<1>2. Max({x, y}) \in {x, y} /\ \A n \in {x, y} : n <= Max({x, y})
  BY <1>1 DEF Max
<1> QED
  BY <1>2

LEMMA BoundProof ==
  ASSUME IInv, 0 \notin Keeps
  PROVE  ContextBounded
<1> DEFINE inFull == {i \in DOMAIN history : history[i].kind = "assistant"}
           told == \E i \in DOMAIN history : IsSummary(i)
           a == memory.lastAppended
           w == args.window
<1> SUFFICES ASSUME pc = "query", args.compress
             PROVE  Cardinality(inFull) <
                      IF told THEN w + args.keep ELSE Max({args.trigger, w + args.keep})
  BY DEF ContextBounded
<1>1. InRun /\ args.keep > 0 /\ w \in Nat \ {0} /\ args.keep \in Nat /\ args.trigger \in Nat
  BY KeepIsPositive, ArgsType DEF IInv, TypeOK, InRun
<1>2. a \in Nat /\ stepCount \in Nat /\ a <= stepCount /\ OldWindows \in Nat
  BY <1>1, Kinds
<1>3. Cardinality(inFull) \in Nat /\ Cardinality(inFull) <= stepCount - a
  BY <1>1, FullTurns
<1>4. /\ a = OldWindows * w /\ a <= memory.lastCompressed
      /\ (memory.lastCompressed > 0 => args.trigger <= stepCount)
      /\ ~NeedsCompression
  BY <1>1 DEF IInv, Counters
<1>5. stepCount = 0 \/ stepCount < args.trigger \/ stepCount < w + args.keep
      \/ stepCount - args.keep < a + w
  <2>1. \/ ~(stepCount > 0) \/ ~(stepCount >= args.trigger)
        \/ ~(stepCount >= w + args.keep) \/ ~(stepCount - args.keep >= a + w)
    BY <1>4 DEF NeedsCompression, CompressUntil
  <2> QED
    BY <2>1, <1>1, <1>2
<1>6. CASE told
  <2>1. OldWindows >= 1
    <3>1. PICK i \in DOMAIN history : history[i].kind = "summary"
      BY <1>6 DEF IsSummary
    <3>2. \E n \in 1..OldWindows : i = 2 + n
      BY <3>1, <1>1, Kinds
    <3> QED
      BY <3>2, <1>2
  <2>2. a >= w
    <3>1. 1 * w <= OldWindows * w /\ 1 * w = w
      BY <2>1, <1>1, <1>2, TimesMono
    <3> QED
      BY <3>1, <1>4
  <2>3. memory.lastCompressed > 0 /\ memory.lastCompressed \in Nat
    <3>1. memory.lastCompressed \in 0..stepCount
      BY DEF IInv, TypeOK
    <3> QED
      BY <3>1, <2>2, <1>1, <1>2, <1>4
  <2>4. stepCount - a < w + args.keep
    <3> HIDE DEF a, w
    <3> QED
      BY <2>2, <2>3, <1>1, <1>2, <1>4, <1>5
  <2> HIDE DEF inFull, a, w, told
  <2> QED
    BY <2>4, <1>1, <1>2, <1>3, <1>6
<1>7. CASE ~told
  <2>1. OldWindows = 0
    <3> SUFFICES ASSUME OldWindows >= 1 PROVE FALSE
      BY <1>2
    <3>1. 2 + 1 \in DOMAIN history
      BY <1>1, <1>2, Kinds
    <3>2. IsSummary(2 + 1)
      <4>1. 1 \in 1..OldWindows
        BY <1>2
      <4> QED
        BY <4>1, <1>1 DEF IInv, Shape
    <3> QED
      BY <3>1, <3>2, <1>7
  <2>2. a = 0
    BY <2>1, <1>1, <1>4
  <2>3. /\ Max({args.trigger, w + args.keep}) \in Nat
        /\ args.trigger <= Max({args.trigger, w + args.keep})
        /\ w + args.keep <= Max({args.trigger, w + args.keep})
    BY <1>1, MaxOfTwo
  <2> HIDE DEF inFull, a, w, told
  <2> QED
    BY <2>2, <2>3, <1>1, <1>2, <1>3, <1>5, <1>7
<1> QED
  BY <1>6, <1>7

(* On every window, trigger and number of kept turns but 0: the recent     *)
(* turns are in full, and no more turns than the window allows.            *)
THEOREM WindowIsHeld ==
  ASSUME 0 \notin Keeps
  PROVE  Spec => []WindowHolds
<1>1. IInv => WindowHolds
  BY RecentProof, BoundProof DEF WindowHolds
<1> QED
  BY <1>1, HistoryInvariant, PTL
-----------------------------------------------------------------------------
(* A compression, or a turn, leaves the history as it was up to its last   *)
(* summary.                                                                *)
LEMMA PrefixKept ==
  ASSUME IInv, [Next]_vars, InRun, 0 \notin Keeps,
         NEW i \in DOMAIN history, IsSummary(i), NEW j \in 1..i
  PROVE  j \in DOMAIN history' /\ history'[j] = history[j]
<1>1. /\ TypeOK /\ Counters /\ Shape /\ args.keep > 0
      /\ history \in Seq(Messages) /\ DOMAIN history = 1..Len(history) /\ OldWindows \in Nat
  BY KeepIsPositive, Kinds DEF IInv, TypeOK, Messages
<1>2. i \in Nat /\ i <= 2 + OldWindows /\ i <= Len(history)
  <2>1. \E n \in 1..OldWindows : i = 2 + n
    BY <1>1, Kinds DEF IsSummary
  <2> QED
    BY <2>1, <1>1
<1>3. j \in DOMAIN history /\ j \in 1..(2 + OldWindows)
  BY <1>1, <1>2
<1>4. CASE UNCHANGED history
  BY <1>3, <1>4
<1>5. CASE CompressHistory /\ NeedsCompression
  <2>1. history' = CompressedHistory(Singles)
    <3>1. Len(Singles) = CompressUntil
      BY <1>1, <1>5, SinglesAreAll
    <3> QED
      BY <3>1, <1>5 DEF CompressHistory, Singles
  <2>2. /\ history' \in Seq(Messages) /\ Len(history') = 2 + NewWindows + Len(Tail3)
        /\ history'[j] = history[j]
    BY <2>1, <1>1, <1>3, <1>5, CompressedPlaces
  <2>3. Len(Tail3) \in Nat /\ NewWindows \in Nat /\ OldWindows < NewWindows
    BY <1>1, <1>5, CompressNumbers, Pieces
  <2> QED
    BY <2>2, <2>3, <1>1, <1>3
<1>6. CASE \E submits, raises, overTokens, overTime \in BOOLEAN :
             Turn(submits, raises, overTokens, overTime)
  <2>1. history' = history \o <<Message("assistant", <<stepCount>>),
                               Message("observation", <<stepCount>>)>>
    BY <1>6 DEF Turn
  <2>2. \A m1, m2 : \A h \in Seq(Messages) : \A k \in 1..Len(h) :
          k \in DOMAIN (h \o <<m1, m2>>) /\ (h \o <<m1, m2>>)[k] = h[k]
    OBVIOUS
  <2> QED
    BY <2>1, <2>2, <1>1, <1>3
<1>7. \/ UNCHANGED history \/ (CompressHistory /\ NeedsCompression)
      \/ \E submits, raises, overTokens, overTime \in BOOLEAN :
           Turn(submits, raises, overTokens, overTime)
  BY DEF Next, InRun, vars, runVars, StartRun, CompressHistory, QueryFails, RunReturns, RunRaises,
         RewardComputed, RewardRaises
<1> QED
  BY <1>4, <1>5, <1>6, <1>7

(* No step of a run rewrites what the model was told up to a summary.      *)
THEOREM SummariesAreFrozen ==
  ASSUME 0 \notin Keeps
  PROVE  Spec => SummariesFrozen
<1>1. IInv /\ [Next]_vars =>
        [InRun => \A i \in DOMAIN history : IsSummary(i) =>
           \A j \in 1..i : j \in DOMAIN history' /\ history'[j] = history[j]]_vars
  BY PrefixKept
<1> QED
  BY <1>1, HistoryInvariant, PTL DEF Spec, SummariesFrozen
-----------------------------------------------------------------------------
(* A place that tells of a turn is the k-th of a window's summary, or the  *)
(* answer of a turn kept in full.                                          *)
InWindow(p) ==
  \E n \in 1..OldWindows : \E k \in 1..args.window :
    p = <<2 + n, k>> /\ TurnAt(p) = (n - 1) * args.window + k - 1
KeptTurn(p) ==
  \E t \in memory.lastAppended..(stepCount - 1) : p = <<Place(t), 1>> /\ TurnAt(p) = t

LEMMA ToldPlaces ==
  ASSUME IInv, InRun, args.keep > 0, NEW p \in Told
  PROVE  InWindow(p) \/ KeptTurn(p)
<1>1. PICK i \in DOMAIN history : /\ history[i].kind \in {"summary", "assistant"}
                                 /\ p \in {i} \X DOMAIN history[i].turns
  BY DEF Told
<1>2. PICK k \in DOMAIN history[i].turns : p = <<i, k>>
  BY <1>1
<1>3. p[1] = i /\ p[2] = k
  BY <1>2
<1>4. CASE \E n \in 1..OldWindows :
             i = 2 + n /\ history[i].turns = WindowTurns(n)
  <2>1. PICK n \in 1..OldWindows : i = 2 + n /\ history[i].turns = WindowTurns(n)
    BY <1>4
  <2>2. k \in 1..args.window /\ history[i].turns[k] = (n - 1) * args.window + k - 1
    BY <1>2, <2>1 DEF WindowTurns
  <2> QED
    BY <2>1, <2>2, <1>2, <1>3 DEF InWindow, TurnAt
<1>5. CASE \E t \in memory.lastAppended..(stepCount - 1) :
             i = Place(t) /\ history[i].turns = <<t>>
  <2>1. PICK t \in memory.lastAppended..(stepCount - 1) : i = Place(t) /\ history[i].turns = <<t>>
    BY <1>5
  <2>2. k = 1 /\ history[i].turns[k] = t
    BY <1>2, <2>1
  <2> QED
    BY <2>1, <2>2, <1>2, <1>3 DEF KeptTurn, TurnAt
<1> QED
  BY <1>1, <1>4, <1>5, Kinds

(* And each such place is there.                                           *)
LEMMA WindowTold ==
  ASSUME IInv, InRun, args.keep > 0, NEW n \in 1..OldWindows, NEW k \in 1..args.window
  PROVE  <<2 + n, k>> \in Told /\ TurnAt(<<2 + n, k>>) = (n - 1) * args.window + k - 1
<1>1. 2 + n \in DOMAIN history
  <2> DEFINE d == stepCount - memory.lastAppended
  <2>1. OldWindows \in Nat /\ d \in Nat /\ DOMAIN history = 1..(2 + OldWindows + 2 * d)
    BY Kinds
  <2> HIDE DEF d
  <2> QED
    BY <2>1
<1>2. history[2 + n].kind = "summary" /\ history[2 + n].turns = WindowTurns(n)
  BY DEF IInv, Shape, IsSummary
<1>3. k \in DOMAIN history[2 + n].turns
      /\ history[2 + n].turns[k] = (n - 1) * args.window + k - 1
  BY <1>2 DEF WindowTurns
<1> QED
  BY <1>1, <1>2, <1>3 DEF Told, TurnAt

LEMMA KeptTold ==
  ASSUME IInv, InRun, args.keep > 0, NEW t \in memory.lastAppended..(stepCount - 1)
  PROVE  <<Place(t), 1>> \in Told /\ TurnAt(<<Place(t), 1>>) = t
<1>1. Place(t) \in DOMAIN history
  <2> DEFINE a == memory.lastAppended
  <2>1. OldWindows \in Nat /\ a \in Nat /\ stepCount \in Nat
        /\ DOMAIN history = 1..(2 + OldWindows + 2 * (stepCount - a))
    BY Kinds
  <2>2. Place(t) = 3 + OldWindows + 2 * (t - a) /\ t \in a..(stepCount - 1)
    BY DEF Place
  <2> HIDE DEF a
  <2> QED
    BY <2>1, <2>2
<1>2. history[Place(t)].kind = "assistant" /\ history[Place(t)].turns = <<t>>
  BY DEF IInv, Shape, InFull
<1>3. 1 \in DOMAIN history[Place(t)].turns /\ history[Place(t)].turns[1] = t
  BY <1>2
<1> QED
  BY <1>1, <1>2, <1>3 DEF Told, TurnAt

(* The turns of a window lie between the ends of the windows before and up *)
(* to it, all of them below lastAppended.                                  *)
LEMMA WindowRange ==
  ASSUME NEW w \in Nat \ {0}, NEW V \in Nat, NEW n \in 1..V, NEW k \in 1..w
  PROVE  /\ (n - 1) * w \in Nat /\ (n - 1) * w + k - 1 \in Nat /\ V * w \in Nat
         /\ (n - 1) * w + k - 1 < V * w
         /\ \A m \in Nat : n < m => /\ (m - 1) * w \in Nat
                                  /\ (n - 1) * w + k - 1 < (m - 1) * w
<1>1. n - 1 \in Nat /\ (n - 1) * w \in Nat /\ n * w = (n - 1) * w + w /\ n * w \in Nat
  OBVIOUS
<1>2. (n - 1) * w + k - 1 \in Nat /\ (n - 1) * w + k - 1 < n * w
  <2> DEFINE x == (n - 1) * w
  <2>1. x \in Nat /\ n * w = x + w
    BY <1>1
  <2> HIDE DEF x
  <2>2. x + k - 1 \in Nat /\ x + k - 1 < x + w
    BY <2>1
  <2> QED
    BY <2>1, <2>2 DEF x
<1>3. n * w <= V * w /\ V * w \in Nat
  BY TimesMono
<1>4. ASSUME NEW m \in Nat, n < m
      PROVE  (m - 1) * w \in Nat /\ n * w <= (m - 1) * w
  <2>1. m - 1 \in Nat /\ n <= m - 1
    BY <1>4
  <2> QED
    BY <2>1, TimesMono
<1>5. ASSUME NEW m \in Nat, n < m
      PROVE  (n - 1) * w + k - 1 < (m - 1) * w
  <2> DEFINE x == (n - 1) * w + k - 1
             y == n * w
             z == (m - 1) * w
  <2>1. x \in Nat /\ y \in Nat /\ z \in Nat /\ x < y /\ y <= z
    BY <1>1, <1>2, <1>4, <1>5
  <2> HIDE DEF x, y, z
  <2>2. x < z
    BY <2>1
  <2> QED
    BY <2>2 DEF x, z
<1>6. (n - 1) * w + k - 1 < V * w
  <2> DEFINE x == (n - 1) * w + k - 1
             y == n * w
             z == V * w
  <2>1. x \in Nat /\ y \in Nat /\ z \in Nat /\ x < y /\ y <= z
    BY <1>1, <1>2, <1>3
  <2> HIDE DEF x, y, z
  <2>2. x < z
    BY <2>1
  <2> QED
    BY <2>2 DEF x, z
<1> QED
  BY <1>1, <1>2, <1>3, <1>4, <1>5, <1>6

LEMMA InOrder ==
  ASSUME IInv, InRun, args.keep > 0, NEW p \in Told, NEW q \in Told, Before(p, q)
  PROVE  TurnAt(p) < TurnAt(q)
<1> DEFINE w == args.window
           W == OldWindows
           a == memory.lastAppended
<1>1. /\ w \in Nat \ {0} /\ W \in Nat /\ a \in Nat /\ stepCount \in Nat /\ a = W * w
  BY Kinds, ArgsType DEF IInv, TypeOK, Counters
<1>2. CASE InWindow(p) /\ InWindow(q)
  <2>1. PICK n \in 1..W : \E k \in 1..w : p = <<2 + n, k>> /\ TurnAt(p) = (n - 1) * w + k - 1
    BY <1>2 DEF InWindow
  <2>2. PICK k \in 1..w : p = <<2 + n, k>> /\ TurnAt(p) = (n - 1) * w + k - 1
    BY <2>1
  <2>3. PICK m \in 1..W : \E l \in 1..w : q = <<2 + m, l>> /\ TurnAt(q) = (m - 1) * w + l - 1
    BY <1>2 DEF InWindow
  <2>4. PICK l \in 1..w : q = <<2 + m, l>> /\ TurnAt(q) = (m - 1) * w + l - 1
    BY <2>3
  <2> HIDE DEF w, W
  <2>5. n < m \/ (n = m /\ k < l)
    <3>1. 2 + n < 2 + m \/ (2 + n = 2 + m /\ k < l)
      BY <2>2, <2>4 DEF Before
    <3> QED
      BY <3>1, <1>1
  <2> DEFINE x == (n - 1) * w
             z == (m - 1) * w
  <2>6. x \in Nat /\ z \in Nat /\ (n < m => x + k - 1 < z)
    BY <1>1, WindowRange
  <2>7. n = m => x = z
    OBVIOUS
  <2>8. TurnAt(p) = x + k - 1 /\ TurnAt(q) = z + l - 1
    BY <2>2, <2>4
  <2> HIDE DEF x, z
  <2>9. x + k - 1 < z + l - 1
    BY <2>5, <2>6, <2>7, <1>1
  <2> QED
    BY <2>8, <2>9
<1>3. CASE InWindow(p) /\ KeptTurn(q)
  <2>1. PICK n \in 1..W : \E k \in 1..w : TurnAt(p) = (n - 1) * w + k - 1
    BY <1>3 DEF InWindow
  <2>2. PICK k \in 1..w : TurnAt(p) = (n - 1) * w + k - 1
    BY <2>1
  <2>3. TurnAt(q) \in a..(stepCount - 1)
    BY <1>3 DEF KeptTurn
  <2> HIDE DEF w, W, a
  <2>4. TurnAt(p) \in Nat /\ TurnAt(p) < a
    BY <2>2, <1>1, WindowRange
  <2> QED
    BY <2>3, <2>4, <1>1
<1>4. CASE KeptTurn(p) /\ InWindow(q)
  <2>1. PICK t \in a..(stepCount - 1) : p = <<Place(t), 1>>
    BY <1>4 DEF KeptTurn
  <2>2. PICK m \in 1..W : \E l \in 1..w : q = <<2 + m, l>>
    BY <1>4 DEF InWindow
  <2>3. Place(t) > 2 + m /\ Place(t) \in Nat
    <3>1. Place(t) = 3 + W + 2 * (t - a)
      BY DEF Place
    <3> HIDE DEF a, W
    <3> QED
      BY <3>1, <1>1
  <2>4. p[1] = Place(t) /\ q[1] = 2 + m
    BY <2>1, <2>2
  <2>5. p[1] <= q[1]
    BY <2>3, <2>4 DEF Before
  <2> QED
    BY <2>3, <2>4, <2>5
<1>5. CASE KeptTurn(p) /\ KeptTurn(q)
  <2>1. PICK t \in a..(stepCount - 1) : p = <<Place(t), 1>> /\ TurnAt(p) = t
    BY <1>5 DEF KeptTurn
  <2>2. PICK u \in a..(stepCount - 1) : q = <<Place(u), 1>> /\ TurnAt(q) = u
    BY <1>5 DEF KeptTurn
  <2>3. Place(t) < Place(u)
    <3>1. Place(t) < Place(u) \/ (Place(t) = Place(u) /\ 1 < 1)
      BY <2>1, <2>2 DEF Before
    <3> QED
      BY <3>1
  <2>4. Place(t) = 3 + W + 2 * (t - a) /\ Place(u) = 3 + W + 2 * (u - a)
    BY DEF Place
  <2> HIDE DEF w, W, a
  <2>5. t < u
    BY <2>3, <2>4, <1>1
  <2> QED
    BY <2>1, <2>2, <2>5
<1> QED
  BY <1>2, <1>3, <1>4, <1>5, ToldPlaces

LEMMA AllTold ==
  ASSUME IInv, InRun, args.keep > 0
  PROVE  {TurnAt(p) : p \in Told} = 0..(stepCount - 1)
<1> DEFINE w == args.window
           W == OldWindows
           a == memory.lastAppended
<1>1. /\ w \in Nat \ {0} /\ W \in Nat /\ a \in Nat /\ stepCount \in Nat /\ a = W * w
      /\ a <= stepCount
  BY Kinds, ArgsType DEF IInv, TypeOK, Counters
<1>2. ASSUME NEW p \in Told
      PROVE  TurnAt(p) \in 0..(stepCount - 1)
  <2>1. CASE InWindow(p)
    <3>1. PICK n \in 1..W : \E k \in 1..w : TurnAt(p) = (n - 1) * w + k - 1
      BY <2>1 DEF InWindow
    <3>2. PICK k \in 1..w : TurnAt(p) = (n - 1) * w + k - 1
      BY <3>1
    <3> HIDE DEF w, W, a
    <3>3. TurnAt(p) \in Nat /\ TurnAt(p) < a
      BY <3>2, <1>1, WindowRange
    <3> QED
      BY <3>3, <1>1
  <2>2. CASE KeptTurn(p)
    <3>1. TurnAt(p) \in a..(stepCount - 1)
      BY <2>2 DEF KeptTurn
    <3> HIDE DEF w, W, a
    <3> QED
      BY <3>1, <1>1
  <2> QED
    BY <2>1, <2>2, ToldPlaces
<1>3. ASSUME NEW t \in 0..(stepCount - 1)
      PROVE  \E p \in Told : TurnAt(p) = t
  <2>1. CASE t >= a
    <3>1. t \in a..(stepCount - 1)
      BY <2>1, <1>1
    <3> QED
      BY <3>1, KeptTold
  <2>2. CASE t < a
    <3> DEFINE d == t \div w
               r == t % w
    <3>1. d \in Nat /\ r \in 0..(w - 1) /\ d * w \in Nat /\ t = d * w + r
      <4>1. t \in Nat
        BY <1>1
      <4> HIDE DEF w
      <4> QED
        BY <4>1, <1>1, DivMod
    <3> HIDE DEF d, r, w, W, a
    <3>2. d < W
      <4> SUFFICES ASSUME W <= d PROVE FALSE
        BY <3>1, <1>1
      <4>1. W * w <= d * w
        BY <3>1, <1>1, TimesMono
      <4> QED
        BY <4>1, <3>1, <2>2, <1>1
    <3>3. d + 1 \in 1..W /\ r + 1 \in 1..w /\ (d + 1) - 1 = d
      BY <3>1, <3>2, <1>1
    <3>4. <<2 + (d + 1), r + 1>> \in Told
          /\ TurnAt(<<2 + (d + 1), r + 1>>) = ((d + 1) - 1) * w + (r + 1) - 1
      BY <3>3, WindowTold DEF w, W
    <3> DEFINE x == d * w
    <3>5. ((d + 1) - 1) * w + (r + 1) - 1 = x + (r + 1) - 1
      BY <3>3
    <3>6. x \in Nat /\ t = x + r /\ r \in Nat
      BY <3>1, <1>1
    <3> HIDE DEF x
    <3>7. x + (r + 1) - 1 = t
      BY <3>6
    <3> QED
      BY <3>4, <3>5, <3>7
  <2> QED
    BY <2>1, <2>2, <1>1
<1> QED
  BY <1>2, <1>3

(* Compression loses no turn, repeats none and keeps their order.          *)
THEOREM EveryTurnIsShownOnce ==
  ASSUME 0 \notin Keeps
  PROVE  Spec => []EveryTurnShownOnce
<1>1. IInv => EveryTurnShownOnce
  BY KeepIsPositive, InOrder, AllTold DEF EveryTurnShownOnce
<1> QED
  BY <1>1, HistoryInvariant, PTL
-----------------------------------------------------------------------------
(* Where runagent is within one run of the agent: before it, in its loop,  *)
(* past it; and the order of the stages of one pass of the loop.           *)
PartOf(place)  == CASE place = "setup" -> 0 [] place \in {"turn", "query", "ended"} -> 1
                  [] place = "reward" -> 2 [] OTHER -> 3
StageOf(place) == CASE place = "turn" -> 0 [] place = "query" -> 1 [] OTHER -> 2

(* Every step of runagent gets on: with the iterations, within one with    *)
(* the restarts, within one with the run, within it with the turns, within *)
(* one with its stages.  No iteration or restart is entered twice, and     *)
(* neither compression nor a failed query lets a run turn in a circle.     *)
(* TypeOK bounds each of these, which is why RunEnds holds.                *)
GetsOn ==
  [][\/ iteration' > iteration
     \/ /\ iteration' = iteration
        /\ \/ idx' > idx
           \/ /\ idx' = idx
              /\ \/ PartOf(pc') > PartOf(pc)
                 \/ /\ PartOf(pc') = PartOf(pc) /\ PartOf(pc) = 1
                    /\ \/ stepCount' > stepCount
                       \/ stepCount' = stepCount /\ StageOf(pc') > StageOf(pc)]_vars

(* No run of runagent goes round in a circle (agent.py 516-665, edit.py    *)
(* 208-260), for all settings.                                             *)
THEOREM RunsGetOn == Spec => GetsOn
<1>1. ASSUME TypeOK, Next
      PROVE  \/ iteration' > iteration
             \/ /\ iteration' = iteration
                /\ \/ idx' > idx
                   \/ /\ idx' = idx
                      /\ \/ PartOf(pc') > PartOf(pc)
                         \/ /\ PartOf(pc') = PartOf(pc) /\ PartOf(pc) = 1
                            /\ \/ stepCount' > stepCount
                               \/ stepCount' = stepCount /\ StageOf(pc') > StageOf(pc)
  <2>1. iteration \in Nat /\ idx \in Nat /\ stepCount \in Nat
    <3>1. args.iterations \in Nat /\ args.restarts \in Nat
      BY <1>1, ArgsType DEF TypeOK
    <3> QED BY <1>1, <3>1, ArgumentsAssumption DEF TypeOK
  <2>2. CASE StartRun \/ RunRaises \/ RewardComputed \/ RewardRaises
    BY <2>2 DEF StartRun, RunRaises, RewardComputed, RewardRaises, loopVars, PartOf
  <2>3. CASE CompressHistory \/ QueryFails
    BY <2>3 DEF CompressHistory, QueryFails, loopVars, PartOf, StageOf
  <2>4. CASE \E submits, raises, overTokens, overTime \in BOOLEAN :
               Turn(submits, raises, overTokens, overTime)
    <3>1. pc = "query" /\ pc' \in {"turn", "ended"} /\ stepCount' = stepCount + 1
          /\ UNCHANGED loopVars
      BY <2>4 DEF Turn
    <3> QED BY <2>1, <3>1 DEF loopVars, PartOf
  <2>5. CASE RunReturns
    <3>1. /\ pc = "ended"
          /\ \/ idx' = idx + 1 /\ iteration' = iteration
             \/ iteration' = iteration + 1
             \/ pc' = "reward" /\ UNCHANGED <<iteration, idx>>
      BY <2>5 DEF RunReturns
    <3> QED BY <2>1, <3>1 DEF PartOf
  <2> QED BY <1>1, <2>2, <2>3, <2>4, <2>5 DEF Next
<1> QED
  BY <1>1, TypeCorrect, PTL DEF Spec, GetsOn
=============================================================================
