----------------------- MODULE AgentTrajectoryProofs ------------------------
(***************************************************************************)
(* Proofs about AgentTrajectory for any limits, token counts and numbers   *)
(* of retries: types, LossOnOwnTurns, BudgetHolds, ResultIsJudged.         *)
(***************************************************************************)
EXTENDS AgentTrajectory, SequenceTheorems, TLAPS

Stopping == {"NO_CONTAINER", "PROMPT_TRUNCATION"}
NoStop   == \A i \in 1..Len(tokens) : tokens[i] # "stop"
NoScore  == \A i \in 1..Len(rewards) : rewards[i] = 0

(* What holds at each place of the coroutine.                              *)
Script ==
  /\ pc \in {"loop", "model", "step", "finish", "reward"} => ~maskedOut /\ final = NoReward
  /\ pc \in {"model", "step"} => reason = NoReason /\ stepIdx < MaxSteps
  /\ pc = "loop" => reason \in Stopping \cup {NoReason, "MAX_STEPS"}
  /\ pc = "loop" /\ reason = "MAX_STEPS" => stepIdx = MaxSteps
  /\ pc \in {"step", "reward"} => rewards # <<>>
  /\ pc = "step" => stepping >= 1

(* The stop message is only there when no step was taken.                  *)
Stops ==
  /\ pc \in {"loop", "model", "step"} => NoStop
  /\ pc = "loop" /\ reason \in Stopping => rewards = <<>>
  /\ pc = "finish" => NoStop \/ rewards = <<>>
  /\ pc \in {"reward", "close", "returned"} => NoStop \/ maskedOut

(* The budget, between two steps too.                                      *)
Between ==
  pc = "loop" /\ reason \notin Stopping =>
    respLen = Len(tokens) /\ (opts.enforce \/ respLen < MaxResponseLength)

(* No step is scored before the end, and then the last one only.           *)
Score ==
  /\ \A i \in 1..(Len(rewards) - 1) : rewards[i] = 0
  /\ IF maskedOut
     THEN final = NoReward /\ NoScore
     ELSE /\ rewards # <<>>
          /\ rewards[Len(rewards)] = IF Halved /\ final = Full THEN Half ELSE final
Scored ==
  /\ pc \in {"loop", "model", "step", "finish", "reward"} => NoScore
  /\ pc \in {"close", "returned"} => Score

IInv == /\ TypeOK /\ Script
        /\ MaskSelectsModel /\ EndsOnModelTurn /\ Stops
        /\ ResponseFits /\ BudgetIsExact /\ Between
        /\ Scored

(* A function on 1..n is a sequence.                                       *)
LEMMA AsSequence ==
  ASSUME NEW S, NEW n \in Nat, NEW f \in [1..n -> S]
  PROVE  f \in Seq(S) /\ Len(f) = n
  OBVIOUS

(* n tokens of one author.                                                 *)
LEMMA SomeTokens ==
  ASSUME NEW author \in Authors, NEW n \in Nat
  PROVE  /\ TokensOf(author, n) \in Seq(Authors) /\ Len(TokensOf(author, n)) = n
         /\ \A i \in 1..n : TokensOf(author, n)[i] = author
<1> DEFINE t == TokensOf(author, n)
<1>1. t \in [1..n -> Authors] /\ \A i \in 1..n : t[i] = author
  BY DEF TokensOf
<1> HIDE DEF t
<1>2. t \in Seq(Authors) /\ Len(t) = n
  BY <1>1, AsSequence
<1> QED BY <1>1, <1>2 DEF t

(* What a step of the loop may leave behind has the right types.           *)
LEMMA StepTypes ==
  ASSUME TypeOK, stepping' \in Nat, pc' \in PCs, reason' \in Reasons \cup {NoReason},
         stepIdx' \in 0..MaxSteps, rewards' \in Seq({0, Half, Full}),
         tokens' \in Seq(Authors), masks' \in Seq({0, 1}),
         respLen' \in Nat, counted' \in Nat,
         UNCHANGED <<opts, attempt, envTry, final, maskedOut, hasRepo, container, hasContainer>>
  PROVE  TypeOK'
BY DEF TypeOK

(* The tokens of a step.                                                   *)
LEMMA OfAStep ==
  ASSUME NEW a \in Nat, NEW e \in Nat
  PROVE  /\ StepTokens(a, e) \in Seq(Authors) /\ Len(StepTokens(a, e)) = a + e
         /\ \A i \in 1..(a + e) : StepTokens(a, e)[i] = IF i <= a THEN "model" ELSE "env"
<1>1. "model" \in Authors /\ "env" \in Authors
  BY DEF Authors
<1> DEFINE m == TokensOf("model", a)
           v == TokensOf("env", e)
<1>2. m \in Seq(Authors) /\ v \in Seq(Authors) /\ Len(m) = a /\ Len(v) = e
  BY <1>1, SomeTokens
<1>3. (\A i \in 1..a : m[i] = "model") /\ \A i \in 1..e : v[i] = "env"
  BY <1>1, SomeTokens
<1> HIDE DEF m, v
<1>4. /\ m \o v \in Seq(Authors) /\ Len(m \o v) = a + e
      /\ \A i \in 1..(a + e) : (m \o v)[i] = IF i <= a THEN m[i] ELSE v[i - a]
  BY <1>2, ConcatProperties
<1>5. \A i \in 1..(a + e) : (m \o v)[i] = IF i <= a THEN "model" ELSE "env"
  <2> SUFFICES ASSUME NEW i \in 1..(a + e)
               PROVE  (m \o v)[i] = IF i <= a THEN "model" ELSE "env"
    OBVIOUS
  <2>1. CASE i <= a
    BY <1>3, <1>4, <2>1
  <2>2. CASE ~(i <= a)
    <3>1. i - a \in 1..e
      BY <2>2
    <3> QED BY <1>3, <1>4, <2>2, <3>1
  <2> QED BY <2>1, <2>2
<1> QED BY <1>4, <1>5 DEF StepTokens, m, v

(* Tokens and masks that grow together stay aligned.                       *)
LEMMA Grown ==
  ASSUME TypeOK, MaskSelectsModel, ~maskedOut, ~maskedOut',
         NEW new \in Seq(Authors),
         tokens' = tokens \o new, masks' = masks \o MasksOf(new)
  PROVE  /\ tokens' \in Seq(Authors) /\ masks' \in Seq({0, 1})
         /\ Len(tokens') = Len(tokens) + Len(new) /\ Len(new) \in Nat
         /\ \A i \in 1..Len(tokens') :
              tokens'[i] = IF i <= Len(tokens) THEN tokens[i] ELSE new[i - Len(tokens)]
         /\ MaskSelectsModel'
<1> DEFINE m == MasksOf(new)
<1>1. /\ Len(new) \in Nat /\ tokens \in Seq(Authors) /\ masks \in Seq({0, 1})
      /\ Len(masks) = Len(tokens)
  BY DEF TypeOK, MaskSelectsModel
<1>2. m \in [1..Len(new) -> {0, 1}] /\ \A i \in 1..Len(new) : m[i] = MaskOf(new[i])
  BY <1>1 DEF MasksOf, MaskOf
<1> HIDE DEF m
<1>3. m \in Seq({0, 1}) /\ Len(m) = Len(new)
  BY <1>1, <1>2, AsSequence
<1>4. /\ tokens' \in Seq(Authors) /\ Len(tokens') = Len(tokens) + Len(new)
      /\ \A i \in 1..Len(tokens') :
           tokens'[i] = IF i <= Len(tokens) THEN tokens[i] ELSE new[i - Len(tokens)]
  BY <1>1, ConcatProperties
<1>5. /\ masks' \in Seq({0, 1}) /\ Len(masks') = Len(masks) + Len(m)
      /\ \A i \in 1..Len(masks') :
           masks'[i] = IF i <= Len(masks) THEN masks[i] ELSE m[i - Len(masks)]
  <2>1. masks' = masks \o m
    BY DEF m
  <2> DEFINE B == {0, 1}
  <2>2. masks \in Seq(B) /\ m \in Seq(B) /\ Len(masks) \in Nat /\ Len(m) \in Nat
    BY <1>1, <1>3
  <2> HIDE DEF B
  <2>3. /\ masks' \in Seq(B) /\ Len(masks') = Len(masks) + Len(m)
        /\ \A i \in 1..Len(masks') :
             masks'[i] = IF i <= Len(masks) THEN masks[i] ELSE m[i - Len(masks)]
    BY <2>1, <2>2, ConcatProperties
  <2> QED BY <2>3 DEF B
<1>6. \A i \in 1..Len(tokens') : masks'[i] = IF tokens'[i] # "env" THEN 1 ELSE 0
  <2> SUFFICES ASSUME NEW i \in 1..Len(tokens')
               PROVE  masks'[i] = IF tokens'[i] # "env" THEN 1 ELSE 0
    OBVIOUS
  <2>1. CASE i <= Len(tokens)
    BY <1>1, <1>3, <1>4, <1>5, <2>1 DEF MaskSelectsModel
  <2>2. CASE ~(i <= Len(tokens))
    <3>1. i - Len(tokens) \in 1..Len(new)
      BY <1>1, <1>4, <2>2
    <3>2. tokens'[i] = new[i - Len(tokens)]
      BY <1>4, <2>2
    <3>3. masks'[i] = m[i - Len(tokens)]
      BY <1>1, <1>3, <1>4, <1>5, <2>2
    <3> QED BY <1>2, <3>1, <3>2, <3>3 DEF MaskOf
  <2> QED BY <2>1, <2>2
<1> QED BY <1>1, <1>3, <1>4, <1>5, <1>6 DEF MaskSelectsModel

(* The last reward is replaced.                                            *)
LEMMA LastReplaced ==
  ASSUME TypeOK, rewards # <<>>, NEW r \in {0, Half, Full},
         rewards' = [rewards EXCEPT ![Len(rewards)] = r]
  PROVE  /\ rewards' \in Seq({0, Half, Full}) /\ rewards' # <<>>
         /\ Len(rewards') = Len(rewards) /\ Len(rewards) \in 1..Len(rewards)
         /\ \A i \in 1..Len(rewards) :
              rewards'[i] = IF i = Len(rewards) THEN r ELSE rewards[i]
<1>1. rewards \in Seq({0, Half, Full}) /\ Len(rewards) \in 1..Len(rewards)
  BY DEF TypeOK
<1>2. /\ rewards' \in Seq({0, Half, Full}) /\ Len(rewards') = Len(rewards)
      /\ \A i \in 1..Len(rewards) :
           rewards'[i] = IF i = Len(rewards) THEN r ELSE rewards[i]
  BY <1>1, ExceptSeq
<1> QED BY <1>1, <1>2

(* The initial state satisfies the invariant.                              *)
LEMMA InitInvariant == Init => IInv
<1> SUFFICES ASSUME Init PROVE IInv
  OBVIOUS
<1>1. TypeOK
  <2>1. rewards \in Seq({0, Half, Full}) /\ tokens \in Seq(Authors) /\ masks \in Seq({0, 1})
    BY DEF Init
  <2>2. opts \in [enforce : BOOLEAN, filter : BOOLEAN]
    BY DEF Init
  <2>3. attempt \in 1..RetryLimit /\ stepIdx \in 0..MaxSteps /\ envTry \in 1..EnvRetries
    BY TrajectoryAssumption DEF Init
  <2>4. /\ pc \in PCs /\ reason = NoReason /\ final = NoReward /\ maskedOut \in BOOLEAN
        /\ respLen = 0 /\ counted = 0 /\ stepping = 0
        /\ hasRepo \in BOOLEAN /\ hasContainer \in BOOLEAN /\ container = "absent"
    BY DEF Init, PCs, Awaiting
  <2> QED BY <2>1, <2>2, <2>3, <2>4 DEF TypeOK
<1>2. Script /\ Stops /\ Between /\ Scored /\ EndsOnModelTurn
  BY DEF Init, Script, Stops, Between, Scored, EndsOnModelTurn
<1>3. MaskSelectsModel /\ ResponseFits /\ BudgetIsExact
  BY TrajectoryAssumption
  DEF Init, MaskSelectsModel, ResponseFits, BudgetIsExact, NoReason
<1> QED BY <1>1, <1>2, <1>3 DEF IInv

(* A step that leaves what the attempt has gathered, and does not enter a  *)
(* place that asks something of it.                                        *)
LEMMA QuietInvariant ==
  ASSUME IInv, UNCHANGED <<opts, attemptVars>>,
         attempt' \in 1..RetryLimit, stepping' \in Nat,
         hasRepo' \in BOOLEAN, hasContainer' \in BOOLEAN,
         container' \in {"absent", "running", "removed"},
         \/ pc' \in {"reset", "raised", "failed"}
         \/ pc' = pc /\ (pc = "step" => stepping' >= 1)
         \/ pc = "close" /\ pc' = "returned"
  PROVE  IInv'
<1> USE DEF IInv
<1>1. UNCHANGED <<opts, reason, stepIdx, rewards, tokens, masks, respLen, counted,
                  envTry, final, maskedOut>>
  BY DEF attemptVars
<1>2. pc' \in PCs
  BY DEF TypeOK, PCs, Awaiting
<1>3. TypeOK'
  BY <1>1, <1>2 DEF TypeOK
<1>4. Script'
  BY <1>1 DEF Script
<1>5. MaskSelectsModel' /\ EndsOnModelTurn'
  BY <1>1 DEF MaskSelectsModel, EndsOnModelTurn
<1>6. Stops' /\ Between'
  BY <1>1 DEF Stops, NoStop, Between
<1>7. ResponseFits' /\ BudgetIsExact'
  BY <1>1 DEF ResponseFits, BudgetIsExact, MaxTokens
<1>8. Scored'
  BY <1>1 DEF Scored, Score, NoScore, Halved
<1> QED BY <1>3, <1>4, <1>5, <1>6, <1>7, <1>8

(* The loop is left, or a model is asked, with what was gathered.          *)
LEMMA OnwardInvariant ==
  ASSUME IInv,
         UNCHANGED <<opts, attempt, stepIdx, rewards, tokens, masks, respLen, counted,
                     envTry, final, maskedOut, envVars>>,
         stepping' \in Nat,
         \/ /\ pc = "loop" /\ pc' = "model" /\ stepIdx < MaxSteps
            /\ reason = NoReason /\ reason' = reason
         \/ /\ pc = "loop" /\ pc' = "finish" /\ stepIdx = MaxSteps /\ reason' = reason
         \/ /\ pc = "loop" /\ pc' = "finish" /\ reason = NoReason
            /\ reason' = "PROMPT_TRUNCATION"
         \/ /\ pc = "step" /\ pc' = "finish"
            /\ reason' \in {"ENV_TIMEOUT", "ENCODE_ERROR"}
  PROVE  IInv'
<1> USE DEF IInv
<1>1. UNCHANGED <<hasRepo, container, hasContainer>> /\ pc' \in PCs
      /\ reason' \in Reasons \cup {NoReason}
  BY DEF envVars, PCs, Awaiting, TypeOK, Reasons
<1>2. TypeOK'
  BY <1>1 DEF TypeOK
<1>3. Script'
  BY DEF Script
<1>4. MaskSelectsModel' /\ Stops'
  BY DEF MaskSelectsModel, Stops, NoStop
<1>5. EndsOnModelTurn'
  BY DEF EndsOnModelTurn, Script, Stopping, NoReason
<1>6. Between' /\ ResponseFits' /\ BudgetIsExact'
  <2>1. Between'
    BY DEF Between
  <2>2. MaxResponseLength \in Nat \ {0} /\ Len(tokens) \in Nat /\ respLen \in Nat
    BY TrajectoryAssumption DEF TypeOK
  <2>3. ResponseFits'
    BY <2>2 DEF ResponseFits, Script, NoReason
  <2>4. BudgetIsExact'
    <3>1. CASE pc' = "model"
      BY <2>2, <3>1 DEF BudgetIsExact, MaxTokens, Between, Stopping, NoReason
    <3>2. CASE pc' # "model"
      BY <3>2 DEF BudgetIsExact, Script, NoReason
    <3> QED BY <3>1, <3>2
  <2> QED BY <2>1, <2>3, <2>4
<1>7. Scored'
  BY DEF Scored, NoScore
<1> QED BY <1>2, <1>3, <1>4, <1>5, <1>6, <1>7

(* An attempt begins with nothing gathered.                                *)
LEMMA ResetInvariant == IInv /\ Reset => IInv'
<1> SUFFICES ASSUME IInv, Reset PROVE IInv'
  OBVIOUS
<1> USE DEF IInv
<1>1. /\ stepIdx' = 0 /\ rewards' = <<>> /\ tokens' = <<>> /\ masks' = <<>> /\ respLen' = 0
      /\ counted' = 0 /\ envTry' = 1 /\ final' = NoReward /\ maskedOut' = FALSE
      /\ pc' = "loop" /\ UNCHANGED <<opts, attempt, stepping>>
  BY DEF Reset, FreshAttempt
<1>2. /\ reason' \in Stopping \cup {NoReason}
      /\ container' \in {"absent", "running"} /\ hasRepo' \in BOOLEAN /\ hasContainer' \in BOOLEAN
  BY DEF Reset, EnvReset, Stopping
<1>3. TypeOK'
  <2>1. /\ rewards' \in Seq({0, Half, Full}) /\ tokens' \in Seq(Authors)
        /\ masks' \in Seq({0, 1})
    BY <1>1
  <2>2. stepIdx' \in 0..MaxSteps /\ envTry' \in 1..EnvRetries
    BY <1>1, TrajectoryAssumption
  <2>3. pc' \in PCs /\ reason' \in Reasons \cup {NoReason}
    BY <1>1, <1>2 DEF PCs, Stopping, Reasons
  <2> QED BY <1>1, <1>2, <2>1, <2>2, <2>3 DEF TypeOK
<1>4. Script' /\ Stops' /\ Scored' /\ EndsOnModelTurn'
  BY <1>1, <1>2 DEF Script, Stops, NoStop, Scored, NoScore, EndsOnModelTurn, Stopping, NoReason
<1>5. MaskSelectsModel'
  BY <1>1 DEF MaskSelectsModel
<1>6. Between' /\ ResponseFits' /\ BudgetIsExact'
  BY <1>1, <1>2, TrajectoryAssumption
  DEF Between, ResponseFits, BudgetIsExact, Stopping, NoReason
<1> QED BY <1>3, <1>4, <1>5, <1>6

(* The stop message of an attempt that cannot start.                       *)
LEMMA StopMessageInvariant == IInv /\ StopMessage => IInv'
<1> SUFFICES ASSUME IInv, StopMessage PROVE IInv'
  OBVIOUS
<1> USE DEF IInv
<1>1. /\ pc = "loop" /\ pc' = "finish" /\ reason \in Stopping
      /\ UNCHANGED <<opts, attempt, reason, stepIdx, rewards, respLen, counted, envTry,
                     final, maskedOut, stepping, hasRepo, container, hasContainer>>
      /\ tokens' = tokens \o TokensOf("stop", StopLen)
      /\ masks' = masks \o MasksOf(TokensOf("stop", StopLen))
  BY DEF StopMessage, envVars, Stopping
<1>2. TokensOf("stop", StopLen) \in Seq(Authors)
  BY SomeTokens, TrajectoryAssumption DEF Authors
<1>3. tokens' \in Seq(Authors) /\ masks' \in Seq({0, 1}) /\ MaskSelectsModel'
  BY <1>1, <1>2, Grown DEF Script
<1>4. TypeOK'
  <2>1. TypeOK
    OBVIOUS
  <2> HIDE DEF IInv
  <2> QED BY <2>1, <1>1, <1>3 DEF TypeOK, PCs
<1>5. Script' /\ Scored' /\ EndsOnModelTurn' /\ Between'
  BY <1>1 DEF Script, Scored, NoScore, EndsOnModelTurn, Between, Stopping
<1>6. Stops'
  BY <1>1 DEF Stops
<1>7. ResponseFits' /\ BudgetIsExact'
  BY <1>1 DEF ResponseFits, BudgetIsExact, Stopping
<1> QED BY <1>3, <1>4, <1>5, <1>6, <1>7

(* The model answers: the trajectory has one more step, without a reward.  *)
LEMMA ModelInvariant == IInv /\ ModelResponds => IInv'
<1> SUFFICES ASSUME IInv, ModelResponds PROVE IInv'
  OBVIOUS
<1> USE DEF IInv
<1>1. /\ pc = "model" /\ pc' = "step" /\ rewards' = Append(rewards, 0) /\ envTry' = 1
      /\ stepping' = stepping + 1
      /\ UNCHANGED <<opts, attempt, reason, stepIdx, tokens, masks, respLen, counted,
                     final, maskedOut, hasRepo, container, hasContainer>>
  BY DEF ModelResponds, envVars
<1>2. /\ rewards' \in Seq({0, Half, Full}) /\ rewards' # <<>> /\ NoScore'
  <2> DEFINE R == {0, Half, Full}
  <2>1. rewards \in Seq(R) /\ 0 \in R /\ Len(rewards) \in Nat
    BY DEF TypeOK
  <2> HIDE DEF R
  <2>2. /\ rewards' \in Seq(R) /\ rewards' # <<>> /\ Len(rewards') = Len(rewards) + 1
        /\ \A i \in 1..Len(rewards) : rewards'[i] = rewards[i]
        /\ rewards'[Len(rewards) + 1] = 0
    BY <1>1, <2>1, AppendProperties
  <2>3. NoScore
    BY <1>1 DEF Scored
  <2>4. NoScore'
    <3> SUFFICES ASSUME NEW i \in 1..Len(rewards') PROVE rewards'[i] = 0
      BY DEF NoScore
    <3>1. i \in 1..Len(rewards) \/ i = Len(rewards) + 1
      BY <2>1, <2>2
    <3> QED BY <2>2, <2>3, <3>1 DEF NoScore
  <2> QED BY <2>2, <2>4 DEF R
<1>3. TypeOK'
  <2>1. TypeOK
    OBVIOUS
  <2> HIDE DEF IInv
  <2> QED BY <2>1, <1>1, <1>2, TrajectoryAssumption DEF TypeOK, PCs, Awaiting
<1>4. Script' /\ Scored' /\ Between' /\ EndsOnModelTurn'
  BY <1>1, <1>2 DEF Script, Scored, Between, EndsOnModelTurn, TypeOK
<1>5. MaskSelectsModel' /\ Stops'
  BY <1>1 DEF MaskSelectsModel, Stops, NoStop
<1>6. ResponseFits' /\ BudgetIsExact'
  BY <1>1 DEF ResponseFits, BudgetIsExact, MaxTokens
<1> QED BY <1>3, <1>4, <1>5, <1>6

(* What a step that has come back may add to, and what it leaves alone.    *)
LEMMA Returned ==
  ASSUME IInv, StepDone, NEW new \in Seq(Authors),
         \A i \in 1..Len(new) : new[i] # "stop",
         tokens' = tokens \o new, masks' = masks \o MasksOf(new)
  PROVE  /\ pc = "step" /\ stepping' \in Nat
         /\ UNCHANGED <<opts, attempt, envTry, final, maskedOut, hasRepo, container, hasContainer>>
         /\ reason = NoReason /\ stepIdx \in Nat /\ stepIdx < MaxSteps
         /\ Len(tokens) \in Nat /\ respLen = Len(tokens) /\ counted = Len(tokens)
         /\ opts.enforce \/ MaxResponseLength - respLen >= 1
         /\ tokens' \in Seq(Authors) /\ masks' \in Seq({0, 1}) /\ MaskSelectsModel'
         /\ Len(tokens') = Len(tokens) + Len(new) /\ NoStop'
         /\ Len(new) # 0 => tokens' # <<>> /\ tokens'[Len(tokens')] = new[Len(new)]
<1> USE DEF IInv
<1>1. /\ pc = "step" /\ stepping' = stepping - 1
      /\ UNCHANGED <<opts, attempt, envTry, final, maskedOut, hasRepo, container, hasContainer>>
  BY DEF StepDone, envVars
<1>2. stepping' \in Nat /\ reason = NoReason /\ stepIdx \in Nat /\ stepIdx < MaxSteps
  BY <1>1 DEF Script, TypeOK
<1>3. /\ Len(tokens) \in Nat /\ respLen = Len(tokens) /\ counted = Len(tokens)
      /\ opts.enforce \/ MaxResponseLength - respLen >= 1
  BY <1>1, <1>2 DEF BudgetIsExact, MaxTokens, TypeOK, NoReason
<1>4. /\ tokens' \in Seq(Authors) /\ masks' \in Seq({0, 1}) /\ MaskSelectsModel'
      /\ Len(tokens') = Len(tokens) + Len(new) /\ Len(new) \in Nat
      /\ \A i \in 1..Len(tokens') :
           tokens'[i] = IF i <= Len(tokens) THEN tokens[i] ELSE new[i - Len(tokens)]
  BY <1>1, Grown DEF Script
<1>5. NoStop'
  <2> SUFFICES ASSUME NEW i \in 1..Len(tokens') PROVE tokens'[i] # "stop"
    BY DEF NoStop
  <2>1. CASE i <= Len(tokens)
    BY <1>1, <1>3, <1>4, <2>1 DEF Stops, NoStop
  <2>2. CASE ~(i <= Len(tokens))
    <3>1. i - Len(tokens) \in 1..Len(new)
      BY <1>3, <1>4, <2>2
    <3> QED BY <1>4, <2>2, <3>1
  <2> QED BY <2>1, <2>2
<1>6. Len(new) # 0 => tokens' # <<>> /\ tokens'[Len(tokens')] = new[Len(new)]
  <2> SUFFICES ASSUME Len(new) # 0
               PROVE  tokens' # <<>> /\ tokens'[Len(tokens')] = new[Len(new)]
    OBVIOUS
  <2>1. Len(tokens') \in 1..Len(tokens') /\ ~(Len(tokens') <= Len(tokens))
        /\ Len(tokens') - Len(tokens) = Len(new)
    BY <1>3, <1>4
  <2> QED BY <1>4, <2>1
<1> QED BY <1>1, <1>2, <1>3, <1>4, <1>5, <1>6

(* The step that reaches the response limit is cut to fit it exactly.      *)
LEMMA TruncatedInvariant ==
  ASSUME IInv, NEW a \in ModelLens, NEW e \in EnvLens, StepTruncated(a, e)
  PROVE  IInv'
<1> USE DEF IInv
<1> DEFINE left == MaxResponseLength - respLen
           new  == Truncated(a, e)
<1>1. a \in Nat /\ e \in Nat /\ MaxResponseLength \in Nat
  BY TrajectoryAssumption
<1>2. /\ StepDone /\ pc' = "finish" /\ reason' = "TRUNCATION" /\ UNCHANGED stepIdx
      /\ tokens' = tokens \o new /\ masks' = masks \o MasksOf(new)
      /\ respLen' = respLen + a + e /\ counted' = counted + a + e
      /\ rewards' = IF respLen + a > MaxResponseLength
                    THEN [rewards EXCEPT ![Len(rewards)] = 0] ELSE rewards
      /\ ~opts.enforce /\ respLen + a + e >= MaxResponseLength
  BY DEF StepTruncated, Overlong
<1>3. pc = "step" /\ left \in 1..(a + e) /\ respLen \in Nat /\ respLen = Len(tokens)
  BY <1>1, <1>2 DEF StepDone, BudgetIsExact, MaxTokens, TypeOK
<1>4. /\ new \in Seq(Authors) /\ Len(new) = left
      /\ \A i \in 1..Len(new) : new[i] # "stop"
  <2> DEFINE st == StepTokens(a, e)
  <2>1. /\ st \in Seq(Authors) /\ Len(st) = a + e
        /\ \A i \in 1..(a + e) : st[i] # "stop" /\ st[i] \in Authors
    BY <1>1, OfAStep DEF Authors
  <2> HIDE DEF st
  <2>2. left \in Int /\ 1 <= left /\ \A i \in 1..left : i \in 1..(a + e)
    BY <1>1, <1>3
  <2> HIDE DEF left
  <2>3. /\ SubSeq(st, 1, left) \in Seq(Authors) /\ Len(SubSeq(st, 1, left)) = left
        /\ \A i \in 1..left : SubSeq(st, 1, left)[i] = st[i]
    BY <2>1, <2>2, SubSeqProperties
  <2>4. new = SubSeq(st, 1, left)
    BY DEF Truncated, st, left
  <2> HIDE DEF new
  <2> QED BY <2>1, <2>2, <2>3, <2>4
<1> HIDE DEF new
<1>5. /\ stepping' \in Nat
      /\ UNCHANGED <<opts, attempt, envTry, final, maskedOut, hasRepo, container, hasContainer>>
      /\ reason = NoReason /\ counted \in Nat
      /\ tokens' \in Seq(Authors) /\ masks' \in Seq({0, 1}) /\ MaskSelectsModel'
      /\ Len(tokens') = MaxResponseLength /\ NoStop'
  <2>1. /\ stepping' \in Nat
        /\ UNCHANGED <<opts, attempt, envTry, final, maskedOut, hasRepo, container, hasContainer>>
        /\ reason = NoReason
        /\ tokens' \in Seq(Authors) /\ masks' \in Seq({0, 1}) /\ MaskSelectsModel'
        /\ Len(tokens') = Len(tokens) + Len(new) /\ NoStop'
    BY <1>2, <1>4, Returned
  <2>2. Len(tokens') = MaxResponseLength
    BY <1>1, <1>3, <1>4, <2>1
  <2>3. counted \in Nat
    BY DEF TypeOK
  <2> QED BY <2>1, <2>2, <2>3
<1>6. rewards' \in Seq({0, Half, Full}) /\ NoScore'
  <2>1. rewards # <<>> /\ NoScore /\ rewards \in Seq({0, Half, Full})
    BY <1>3 DEF Script, Scored, TypeOK
  <2>2. CASE rewards' = rewards
    BY <2>1, <2>2 DEF NoScore
  <2>3. CASE rewards' = [rewards EXCEPT ![Len(rewards)] = 0]
    BY <2>1, <2>3, LastReplaced DEF NoScore
  <2> QED BY <1>2, <2>2, <2>3
<1>7. TypeOK'
  <2>1. TypeOK
    OBVIOUS
  <2> HIDE DEF IInv
  <2>2. respLen' \in Nat /\ counted' \in Nat
    BY <1>1, <1>2, <1>3, <1>5
  <2>3. pc' \in PCs /\ reason' \in Reasons \cup {NoReason}
    BY <1>2 DEF PCs, Reasons
  <2>4. stepIdx' \in 0..MaxSteps /\ rewards' \in Seq({0, Half, Full})
    BY <2>1, <1>6, <1>1, <1>2, <1>3, <1>5 DEF TypeOK
  <2>5. /\ stepping' \in Nat /\ tokens' \in Seq(Authors) /\ masks' \in Seq({0, 1})
        /\ UNCHANGED <<opts, attempt, envTry, final, maskedOut, hasRepo, container, hasContainer>>
    BY <1>5
  <2> QED BY <2>1, <2>2, <2>3, <2>4, <2>5, StepTypes
<1>8. Script' /\ Stops' /\ Between' /\ Scored' /\ EndsOnModelTurn'
  BY <1>2, <1>3, <1>5, <1>6 DEF Script, Stops, Between, Scored, EndsOnModelTurn
<1>9. ResponseFits' /\ BudgetIsExact'
  BY <1>1, <1>2, <1>5 DEF ResponseFits, BudgetIsExact
<1> QED BY <1>5, <1>7, <1>8, <1>9

(* The last step keeps the assistant's message and drops the observation.  *)
LEMMA LastInvariant ==
  ASSUME IInv, NEW a \in ModelLens, NEW e \in EnvLens,
         NEW why \in {"TRAJ_TIMEOUT", "ENV_DONE"}, StepLast(a, e, why)
  PROVE  IInv'
<1> USE DEF IInv
<1> DEFINE new == TokensOf("model", a)
<1>1. a \in Nat \ {0} /\ e \in Nat /\ MaxResponseLength \in Nat
  BY TrajectoryAssumption
<1>2. /\ StepDone /\ pc' = "finish" /\ reason' = why /\ UNCHANGED <<stepIdx, rewards>>
      /\ tokens' = tokens \o new /\ masks' = masks \o MasksOf(new)
      /\ respLen' = respLen + a + e /\ counted' = counted + a
      /\ opts.enforce \/ ~(respLen + a + e >= MaxResponseLength)
  BY DEF StepLast, Overlong
<1>3. /\ new \in Seq(Authors) /\ Len(new) = a /\ new[Len(new)] = "model"
      /\ \A i \in 1..Len(new) : new[i] # "stop"
  BY <1>1, SomeTokens DEF Authors
<1> HIDE DEF new
<1>4. /\ pc = "step" /\ stepping' \in Nat
      /\ UNCHANGED <<opts, attempt, envTry, final, maskedOut, hasRepo, container, hasContainer>>
      /\ Len(tokens) \in Nat /\ respLen = Len(tokens) /\ counted = Len(tokens)
      /\ tokens' \in Seq(Authors) /\ masks' \in Seq({0, 1}) /\ MaskSelectsModel'
      /\ Len(tokens') = Len(tokens) + a /\ NoStop'
      /\ tokens' # <<>> /\ tokens'[Len(tokens')] = "model"
  BY <1>1, <1>2, <1>3, Returned
<1>5. TypeOK'
  <2>1. TypeOK
    OBVIOUS
  <2> HIDE DEF IInv
  <2>2. respLen' \in Nat /\ counted' \in Nat
    <3>1. respLen \in Nat /\ counted \in Nat
      BY ONLY <1>4
    <3>2. respLen' = respLen + a + e /\ counted' = counted + a
      BY ONLY <1>2
    <3>3. a \in Nat /\ e \in Nat
      BY ONLY <1>1
    <3> QED
      BY ONLY <3>1, <3>2, <3>3
  <2>3. pc' \in PCs /\ reason' \in Reasons \cup {NoReason}
    BY <1>2 DEF PCs, Reasons
  <2>4. stepIdx' \in 0..MaxSteps /\ rewards' \in Seq({0, Half, Full})
    BY <2>1, <1>1, <1>2, <1>4 DEF TypeOK
  <2>5. /\ stepping' \in Nat /\ tokens' \in Seq(Authors) /\ masks' \in Seq({0, 1})
        /\ UNCHANGED <<opts, attempt, envTry, final, maskedOut, hasRepo, container, hasContainer>>
    BY <1>4
  <2> QED BY <2>1, <2>2, <2>3, <2>4, <2>5, StepTypes
<1>6. Script' /\ Stops' /\ Between'
  BY <1>2, <1>4 DEF Script, Stops, Between
<1>7. Scored' /\ EndsOnModelTurn'
  BY <1>2, <1>4 DEF Scored, NoScore, EndsOnModelTurn
<1>8. ResponseFits' /\ BudgetIsExact'
  <2>1. ResponseFits'
    BY <1>1, <1>2, <1>4, SMTT(30) DEF ResponseFits
  <2>2. BudgetIsExact'
    BY <1>1, <1>2, <1>4, SMTT(30) DEF BudgetIsExact
  <2> QED BY <2>1, <2>2
<1> QED BY <1>4, <1>5, <1>6, <1>7, <1>8

(* A step after which the loop goes on keeps both messages.                *)
LEMMA ContinuesInvariant ==
  ASSUME IInv, NEW a \in ModelLens, NEW e \in EnvLens, StepContinues(a, e)
  PROVE  IInv'
<1> USE DEF IInv
<1> DEFINE new == StepTokens(a, e)
<1>1. a \in Nat \ {0} /\ e \in Nat /\ MaxResponseLength \in Nat /\ MaxSteps \in Nat
  BY TrajectoryAssumption
<1>2. /\ StepDone /\ pc' = "loop" /\ stepIdx' = stepIdx + 1 /\ UNCHANGED rewards
      /\ reason' = IF stepIdx = MaxSteps - 1 THEN "MAX_STEPS" ELSE reason
      /\ tokens' = tokens \o new /\ masks' = masks \o MasksOf(new)
      /\ respLen' = respLen + a + e /\ counted' = counted + a + e
      /\ opts.enforce \/ ~(respLen + a + e >= MaxResponseLength)
  BY DEF StepContinues, Overlong
<1>3. /\ new \in Seq(Authors) /\ Len(new) = a + e
      /\ \A i \in 1..Len(new) : new[i] # "stop"
  BY <1>1, OfAStep
<1> HIDE DEF new
<1>4. /\ pc = "step" /\ stepping' \in Nat
      /\ UNCHANGED <<opts, attempt, envTry, final, maskedOut, hasRepo, container, hasContainer>>
      /\ reason = NoReason /\ stepIdx \in Nat /\ stepIdx < MaxSteps
      /\ Len(tokens) \in Nat /\ respLen = Len(tokens) /\ counted = Len(tokens)
      /\ tokens' \in Seq(Authors) /\ masks' \in Seq({0, 1}) /\ MaskSelectsModel'
      /\ Len(tokens') = Len(tokens) + (a + e) /\ NoStop'
  BY <1>1, <1>2, <1>3, Returned
<1>5. reason' \in {NoReason, "MAX_STEPS"} /\ (reason' = "MAX_STEPS" => stepIdx' = MaxSteps)
  BY <1>1, <1>2, <1>4 DEF NoReason
<1>6. TypeOK'
  <2>1. TypeOK
    OBVIOUS
  <2> HIDE DEF IInv
  <2>2. respLen' \in Nat /\ counted' \in Nat
    BY <1>1, <1>2, <1>4
  <2>3. pc' \in PCs /\ reason' \in Reasons \cup {NoReason}
    BY <1>2, <1>5 DEF PCs, Reasons
  <2>4. stepIdx' \in 0..MaxSteps /\ rewards' \in Seq({0, Half, Full})
    BY <2>1, <1>1, <1>2, <1>4 DEF TypeOK
  <2>5. /\ stepping' \in Nat /\ tokens' \in Seq(Authors) /\ masks' \in Seq({0, 1})
        /\ UNCHANGED <<opts, attempt, envTry, final, maskedOut, hasRepo, container, hasContainer>>
    BY <1>4
  <2> QED BY <2>1, <2>2, <2>3, <2>4, <2>5, StepTypes
<1>7. Script' /\ Stops' /\ EndsOnModelTurn'
  BY <1>2, <1>4, <1>5 DEF Script, Stops, EndsOnModelTurn, Stopping, NoReason
<1>8. Scored'
  BY <1>2, <1>4 DEF Scored, NoScore
<1>9. Between' /\ ResponseFits' /\ BudgetIsExact'
  BY <1>1, <1>2, <1>4, <1>5 DEF Between, ResponseFits, BudgetIsExact, NoReason
<1> QED BY <1>4, <1>6, <1>7, <1>8, <1>9

(* After the loop: masked out, without a step to score, or to be scored.   *)
LEMMA FinishInvariant == IInv /\ Finish => IInv'
<1> SUFFICES ASSUME IInv, Finish PROVE IInv'
  OBVIOUS
<1> USE DEF IInv
<1>1. /\ pc = "finish" /\ maskedOut' = Masked
      /\ masks' = IF Masked THEN [i \in 1..Len(masks) |-> 0] ELSE masks
      /\ pc' = IF Masked THEN "close" ELSE IF rewards = <<>> THEN "raised" ELSE "reward"
      /\ UNCHANGED <<opts, attempt, reason, stepIdx, rewards, tokens, respLen, counted,
                     envTry, stepping, final, hasRepo, container, hasContainer>>
  BY DEF Finish, envVars
<1>2. ~maskedOut /\ final = NoReward /\ NoScore
  BY <1>1 DEF Script, Scored
<1>3. Len(masks) = Len(tokens) /\ Len(masks) \in Nat /\ masks \in Seq({0, 1})
  BY DEF MaskSelectsModel, TypeOK
<1>4. Masked \in BOOLEAN /\ pc' \in PCs
  BY <1>1 DEF Masked, TypeOK, PCs, Awaiting
<1>5. masks' \in Seq({0, 1}) /\ MaskSelectsModel'
  <2>1. CASE Masked
    <3>1. masks' = [i \in 1..Len(masks) |-> 0] /\ maskedOut'
      BY <1>1, <2>1
    <3>2. masks' \in [1..Len(masks) -> {0, 1}] /\ \A i \in 1..Len(masks) : masks'[i] = 0
      BY <3>1
    <3>3. masks' \in Seq({0, 1}) /\ Len(masks') = Len(masks)
      BY <1>3, <3>2, AsSequence
    <3> QED BY <1>1, <1>3, <3>1, <3>2, <3>3 DEF MaskSelectsModel
  <2>2. CASE ~Masked
    <3>1. masks' = masks /\ ~maskedOut' /\ tokens' = tokens
      BY <1>1, <2>2
    <3> QED BY <1>2, <1>3, <3>1 DEF MaskSelectsModel
  <2> QED BY <2>1, <2>2
<1>6. TypeOK'
  BY <1>1, <1>4, <1>5 DEF TypeOK
<1>7. Script' /\ Stops'
  <2>1. CASE Masked
    BY <1>1, <2>1 DEF Script, Stops
  <2>2. CASE ~Masked
    BY <1>1, <1>2, <2>2 DEF Script, Stops, NoStop
  <2> QED BY <2>1, <2>2
<1>8. Scored'
  <2>1. CASE Masked
    BY <1>1, <1>2, <2>1 DEF Scored, Score, NoScore, TypeOK
  <2>2. CASE ~Masked
    BY <1>1, <1>2, <2>2 DEF Scored, NoScore
  <2> QED BY <2>1, <2>2
<1>9. EndsOnModelTurn' /\ Between' /\ ResponseFits' /\ BudgetIsExact'
  <2>1. pc' \in {"close", "raised", "reward"}
    BY <1>1
  <2> QED BY <1>1, <2>1 DEF EndsOnModelTurn, Between, ResponseFits, BudgetIsExact
<1> QED BY <1>5, <1>6, <1>7, <1>8, <1>9

(* The reward goes to the last step.                                       *)
LEMMA RewardInvariant == IInv /\ RewardComputed => IInv'
<1> SUFFICES ASSUME IInv, RewardComputed PROVE IInv'
  OBVIOUS
<1> USE DEF IInv
<1>1. PICK r \in {0, Full} :
        /\ final' = r
        /\ rewards' = [rewards EXCEPT ![Len(rewards)] = IF Halved /\ r = Full THEN Half ELSE r]
  BY DEF RewardComputed
<1>2. /\ pc = "reward" /\ pc' = "close"
      /\ UNCHANGED <<opts, attempt, reason, stepIdx, tokens, masks, respLen, counted,
                     envTry, stepping, maskedOut, hasRepo, container, hasContainer>>
  BY DEF RewardComputed, envVars
<1>3. rewards # <<>> /\ NoScore /\ ~maskedOut /\ Len(rewards) \in Nat
  BY <1>2 DEF Script, Scored, TypeOK
<1> DEFINE v == IF Halved /\ r = Full THEN Half ELSE r
<1>4. v \in {0, Half, Full}
  BY <1>1
<1>5. rewards' = [rewards EXCEPT ![Len(rewards)] = v]
  BY <1>1
<1> HIDE DEF v
<1>6. /\ rewards' \in Seq({0, Half, Full}) /\ rewards' # <<>>
      /\ Len(rewards') = Len(rewards) /\ Len(rewards) \in 1..Len(rewards)
      /\ \A i \in 1..Len(rewards) : rewards'[i] = IF i = Len(rewards) THEN v ELSE rewards[i]
  BY <1>3, <1>4, <1>5, LastReplaced
<1>7. \A i \in 1..(Len(rewards') - 1) : rewards'[i] = 0
  BY <1>3, <1>6 DEF NoScore
<1>8. rewards'[Len(rewards')] = v /\ v = IF Halved' /\ final' = Full THEN Half ELSE final'
  BY <1>1, <1>2, <1>6 DEF v, Halved
<1>9. Score' /\ Scored'
  BY <1>2, <1>3, <1>6, <1>7, <1>8 DEF Score, Scored
<1>10. TypeOK'
  <2>1. TypeOK
    OBVIOUS
  <2> HIDE DEF IInv
  <2> QED BY <2>1, <1>1, <1>2, <1>6 DEF TypeOK, PCs, Awaiting
<1>11. Script' /\ Between'
  BY <1>2 DEF Script, Between
<1>12. MaskSelectsModel' /\ EndsOnModelTurn' /\ Stops'
  BY <1>2 DEF MaskSelectsModel, EndsOnModelTurn, Stops, NoStop
<1>13. ResponseFits' /\ BudgetIsExact'
  BY <1>2 DEF ResponseFits, BudgetIsExact
<1> QED BY <1>9, <1>10, <1>11, <1>12, <1>13

(* Every step preserves the invariant.                                     *)
LEMMA StepInvariant == IInv /\ [Next]_vars => IInv'
<1> SUFFICES ASSUME IInv, [Next]_vars PROVE IInv'
  OBVIOUS
<1>0. /\ attempt \in 1..RetryLimit /\ stepping \in Nat /\ envTry \in 1..EnvRetries
      /\ hasRepo \in BOOLEAN /\ hasContainer \in BOOLEAN
      /\ container \in {"absent", "running", "removed"}
      /\ pc = "step" => stepping >= 1
  BY DEF IInv, TypeOK, Script
<1>1. CASE StopMessage
  BY <1>1, StopMessageInvariant
<1>2. CASE PromptTooLong
  BY <1>0, <1>2, OnwardInvariant DEF PromptTooLong, envVars
<1>3. CASE AskModel
  BY <1>0, <1>3, OnwardInvariant DEF AskModel, attemptVars
<1>4. CASE LoopEnds
  BY <1>0, <1>4, OnwardInvariant DEF LoopEnds, attemptVars
<1>5. CASE Finish
  BY <1>5, FinishInvariant
<1>6. CASE NextAttempt
  <2>1. attempt' \in 1..RetryLimit
    BY <1>0, <1>6, TrajectoryAssumption DEF NextAttempt
  <2> QED BY <1>0, <1>6, <2>1, QuietInvariant DEF NextAttempt, envVars
<1>7. CASE GiveUp
  BY <1>0, <1>7, QuietInvariant DEF GiveUp, envVars
<1>8. CASE Reset
  BY <1>8, ResetInvariant
<1>9. CASE ModelResponds
  BY <1>9, ModelInvariant
<1>10. CASE EnvStepReturns
  <2>1. CASE StepUnencodable
    <3>1. stepping' \in Nat
      BY <1>0, <2>1 DEF StepUnencodable, StepDone
    <3> QED BY <2>1, <3>1, OnwardInvariant DEF StepUnencodable, StepDone
  <2>2. ASSUME NEW a \in ModelLens, NEW e \in EnvLens, StepTruncated(a, e) PROVE IInv'
    BY <2>2, TruncatedInvariant
  <2>3. ASSUME NEW a \in ModelLens, NEW e \in EnvLens,
               NEW why \in {"TRAJ_TIMEOUT", "ENV_DONE"}, StepLast(a, e, why)
        PROVE  IInv'
    BY <2>3, LastInvariant
  <2>4. ASSUME NEW a \in ModelLens, NEW e \in EnvLens, StepContinues(a, e) PROVE IInv'
    BY <2>4, ContinuesInvariant
  <2> QED BY <1>10, <2>1, <2>2, <2>3, <2>4 DEF EnvStepReturns
<1>11. CASE EnvStepRetried
  <2>1. /\ pc = "step" /\ envTry' \in 1..EnvRetries /\ stepping' \in Nat /\ stepping' >= 1
        /\ UNCHANGED <<opts, attempt, pc, reason, stepIdx, rewards, tokens, masks, respLen,
                       counted, final, maskedOut, hasRepo, container, hasContainer>>
    BY <1>0, <1>11, TrajectoryAssumption DEF EnvStepRetried, envVars
  <2>2. TypeOK' /\ Script'
    BY <2>1 DEF IInv, TypeOK, Script
  <2>3. MaskSelectsModel' /\ EndsOnModelTurn' /\ Stops' /\ Between'
    BY <2>1 DEF IInv, MaskSelectsModel, EndsOnModelTurn, Stops, NoStop, Between
  <2>4. ResponseFits' /\ BudgetIsExact' /\ Scored'
    BY <2>1 DEF IInv, ResponseFits, BudgetIsExact, MaxTokens, Scored, NoScore
  <2> QED BY <2>2, <2>3, <2>4 DEF IInv
<1>12. CASE EnvStepAbandoned
  BY <1>0, <1>12, OnwardInvariant DEF EnvStepAbandoned
<1>13. CASE LateStepEnds
  <2>1. stepping' \in Nat /\ (pc = "step" => stepping' >= 1)
    BY <1>0, <1>13 DEF LateStepEnds
  <2> QED BY <1>0, <1>13, <2>1, QuietInvariant DEF LateStepEnds, envVars
<1>14. CASE RewardComputed
  BY <1>14, RewardInvariant
<1>15. CASE Closed
  <2>1. container' \in {"absent", "running", "removed"}
    BY <1>0, <1>15 DEF Closed, EnvClose
  <2> QED BY <1>0, <1>15, <2>1, QuietInvariant DEF Closed, EnvClose
<1>16. CASE AttemptFails
  <2>1. /\ pc' = "raised" /\ UNCHANGED <<opts, attempt, attemptVars, stepping>>
        /\ \/ UNCHANGED envVars
           \/ ResetInterrupted
           \/ EnvClose
    BY <1>16 DEF AttemptFails
  <2>2. /\ container' \in {"absent", "running", "removed"}
        /\ hasRepo' \in BOOLEAN /\ hasContainer' \in BOOLEAN
    BY <1>0, <2>1 DEF ResetInterrupted, EnvReset, EnvClose, envVars
  <2> QED BY <1>0, <2>1, <2>2, QuietInvariant
<1>17. CASE UNCHANGED vars
  BY <1>0, <1>17, QuietInvariant DEF vars, envVars
<1> QED
  BY <1>1, <1>2, <1>3, <1>4, <1>5, <1>6, <1>7, <1>8, <1>9, <1>10, <1>11, <1>12, <1>13,
     <1>14, <1>15, <1>16, <1>17
  DEF Next, Local, Answered

(* Every reachable state satisfies the invariant.                          *)
THEOREM TrajectoryInvariant == Spec => []IInv
<1> QED BY InitInvariant, StepInvariant, PTL DEF Spec

(* Every reachable state of a trajectory has its type.                     *)
THEOREM TypeCorrect == Spec => []TypeOK
<1>1. IInv => TypeOK
  BY DEF IInv
<1> QED BY TrajectoryInvariant, <1>1, PTL

(* The loss is computed on exactly what the assistant wrote, whatever the  *)
(* limits and lengths: never on an observation, never on the stop message, *)
(* on nothing of a masked out trajectory.                                  *)
THEOREM LossIsOnOwnTurns == Spec => []LossOnOwnTurns
<1>1. IInv => LossOnOwnTurns
  <2> SUFFICES ASSUME IInv PROVE LossOnOwnTurns
    OBVIOUS
  <2>1. ASSUME pc = "returned", NEW i \in 1..Len(tokens), tokens[i] = "stop" PROVE masks[i] = 0
    <3>1. maskedOut
      BY <2>1 DEF IInv, Stops, NoStop
    <3> QED BY <3>1 DEF IInv, MaskSelectsModel
  <2>2. StopMessageNotTrained
    BY <2>1 DEF StopMessageNotTrained
  <2> QED BY <2>2 DEF IInv, LossOnOwnTurns
<1> QED BY TrajectoryInvariant, <1>1, PTL

(* The response never exceeds its limit, and the model is always given     *)
(* what is left of it.                                                     *)
THEOREM BudgetIsKept == Spec => []BudgetHolds
<1>1. IInv => BudgetHolds
  BY DEF IInv, BudgetHolds
<1> QED BY TrajectoryInvariant, <1>1, PTL

(* What stands before the first step is over, and what that leaves.        *)
Early ==
  /\ pc \in {"loop", "model", "step"} =>
       \/ stepIdx = 0
       \/ tokens # <<>> /\ rewards # <<>> /\ reason \notin Stopping
  /\ pc \in {"finish", "reward", "close", "returned"} =>
       /\ tokens = <<>> => /\ reason \in {"ENV_TIMEOUT", "ENCODE_ERROR", "PROMPT_TRUNCATION"}
                           /\ stepIdx = 0
       /\ rewards = <<>> => reason \in Stopping

(* Every step keeps it: a first step that is over has left its tokens.     *)
LEMMA EarlyStep ==
  ASSUME IInv, IInv', Early, [Next]_vars
  PROVE  Early'
<1> USE DEF IInv
<1>0. /\ tokens \in Seq(Authors) /\ stepIdx \in Nat /\ MaxSteps \in Nat \ {0}
      /\ pc \in {"step", "reward"} => rewards # <<>>
  BY TrajectoryAssumption DEF TypeOK, Script
<1>1. CASE StopMessage
  <2>1. TokensOf("stop", StopLen) \in Seq(Authors) /\ Len(TokensOf("stop", StopLen)) # 0
    BY SomeTokens, TrajectoryAssumption DEF Authors
  <2>2. tokens' # <<>>
    BY <1>0, <1>1, <2>1 DEF StopMessage
  <2> QED BY <1>1, <2>2 DEF StopMessage, Early, Stopping
<1>2. CASE PromptTooLong
  BY <1>2 DEF PromptTooLong, Early, Stopping
<1>3. CASE AskModel
  BY <1>3 DEF AskModel, attemptVars, Early
<1>4. CASE LoopEnds
  BY <1>0, <1>4 DEF LoopEnds, attemptVars, Early
<1>5. CASE Finish
  BY <1>5 DEF Finish, Early
<1>6. CASE NextAttempt \/ GiveUp \/ AttemptFails
  BY <1>6 DEF NextAttempt, GiveUp, AttemptFails, Early
<1>7. CASE Reset
  BY <1>7 DEF Reset, FreshAttempt, Early
<1>8. CASE ModelResponds
  <2>1. UNCHANGED <<reason, stepIdx, tokens>> /\ pc = "model" /\ pc' = "step"
    BY <1>8 DEF ModelResponds
  <2>2. rewards' # <<>>
    BY <2>1 DEF Script
  <2> QED BY <2>1, <2>2 DEF Early
<1>9. CASE EnvStepReturns
  <2>1. CASE StepUnencodable
    BY <1>0, <2>1 DEF StepUnencodable, StepDone, Early
  <2>2. ASSUME NEW a \in ModelLens, NEW e \in EnvLens, StepTruncated(a, e) PROVE Early'
    <3>1. /\ pc' = "finish" /\ reason' = "TRUNCATION" /\ ~opts'.enforce
      BY <2>2 DEF StepTruncated, StepDone, Overlong
    <3>2. Len(tokens') = MaxResponseLength /\ MaxResponseLength # 0
      BY <3>1, TrajectoryAssumption DEF ResponseFits
    <3>3. tokens' # <<>>
      BY <3>2
    <3>4. rewards' # <<>>
      <4>1. rewards # <<>> /\ rewards \in Seq({0, Half, Full})
        BY <1>0, <2>2 DEF StepTruncated, StepDone, TypeOK
      <4>2. CASE rewards' = rewards
        BY <4>1, <4>2
      <4>3. CASE rewards' = [rewards EXCEPT ![Len(rewards)] = 0]
        BY <4>1, <4>3, LastReplaced DEF IInv
      <4> QED BY <2>2, <4>2, <4>3 DEF StepTruncated
    <3> QED BY <3>1, <3>3, <3>4 DEF Early
  <2>3. ASSUME NEW a \in ModelLens, NEW e \in EnvLens,
               NEW why \in {"TRAJ_TIMEOUT", "ENV_DONE"}, StepLast(a, e, why)
        PROVE  Early'
    <3>1. /\ pc = "step" /\ pc' = "finish" /\ reason' \in {"TRAJ_TIMEOUT", "ENV_DONE"}
          /\ rewards' = rewards
      BY <2>3 DEF StepLast, StepDone
    <3>2. tokens' # <<>>
      BY <3>1 DEF EndsOnModelTurn
    <3> QED BY <1>0, <3>1, <3>2 DEF Early
  <2>4. ASSUME NEW a \in ModelLens, NEW e \in EnvLens, StepContinues(a, e) PROVE Early'
    <3>1. /\ pc = "step" /\ pc' = "loop" /\ rewards' = rewards
          /\ reason' \in {reason, "MAX_STEPS"} /\ reason = NoReason
          /\ tokens' = tokens \o StepTokens(a, e)
      BY <2>4 DEF StepContinues, StepDone, Script
    <3>2. a \in Nat \ {0} /\ e \in Nat
      BY TrajectoryAssumption
    <3>3. StepTokens(a, e) \in Seq(Authors) /\ Len(StepTokens(a, e)) = a + e
      BY <3>2, OfAStep
    <3>4. tokens' # <<>>
      BY <1>0, <3>1, <3>2, <3>3
    <3> QED BY <1>0, <3>1, <3>4 DEF Early, Stopping, NoReason
  <2> QED BY <1>9, <2>1, <2>2, <2>3, <2>4 DEF EnvStepReturns
<1>10. CASE EnvStepRetried
  BY <1>10 DEF EnvStepRetried, Early
<1>11. CASE EnvStepAbandoned
  BY <1>0, <1>11 DEF EnvStepAbandoned, Early
<1>12. CASE LateStepEnds
  BY <1>12 DEF LateStepEnds, attemptVars, Early
<1>13. CASE RewardComputed
  <2>1. /\ UNCHANGED <<reason, stepIdx, tokens>> /\ pc = "reward" /\ pc' = "close"
        /\ \E r \in {0, Half, Full} : rewards' = [rewards EXCEPT ![Len(rewards)] = r]
    BY <1>13 DEF RewardComputed
  <2>2. rewards' # <<>>
    BY <1>0, <2>1, LastReplaced
  <2> QED BY <2>1, <2>2 DEF Early
<1>14. CASE Closed
  BY <1>14 DEF Closed, attemptVars, Early
<1>15. CASE UNCHANGED vars
  BY <1>15 DEF vars, attemptVars, Early
<1> QED
  BY <1>1, <1>2, <1>3, <1>4, <1>5, <1>6, <1>7, <1>8, <1>9, <1>10, <1>11, <1>12, <1>13,
     <1>14, <1>15
  DEF Next, Local, Answered

(* What reaches the loss was judged, the reward stands on the last step    *)
(* alone and only for a solved trajectory, and a result without tokens or  *)
(* without steps comes from the few exits EmptyIsEarly names - for any     *)
(* limits, message lengths and retries.                                    *)
THEOREM ResultsAreJudged == Spec => []ResultIsJudged
<1>1. Init => Early
  BY DEF Init, Early
<1>2. IInv => JudgedIfTrained
  <2> SUFFICES ASSUME IInv, pc = "returned" PROVE JudgedIfTrained
    BY DEF JudgedIfTrained
  <2> USE DEF IInv
  <2>1. Score /\ rewards \in Seq({0, Half, Full}) /\ final \in {NoReward, 0, Full}
    BY DEF Scored, TypeOK
  <2>2. CASE maskedOut
    <3>1. \A i \in 1..Len(masks) : masks[i] = 0
      BY <2>2 DEF MaskSelectsModel
    <3>2. final # Full /\ NoScore
      BY <2>1, <2>2 DEF Score, NoReward, Full
    <3> QED BY <3>1, <3>2 DEF JudgedIfTrained, NoScore
  <2>3. CASE ~maskedOut
    <3>1. /\ rewards # <<>> /\ \A i \in 1..(Len(rewards) - 1) : rewards[i] = 0
          /\ rewards[Len(rewards)] = IF Halved /\ final = Full THEN Half ELSE final
      BY <2>1, <2>3 DEF Score
    <3>2. Len(rewards) \in 1..Len(rewards) /\ rewards[Len(rewards)] \in {0, Half, Full}
      BY <2>1, <3>1
    <3>3. final \in {0, Full} /\ (rewards[Len(rewards)] > 0 <=> final = Full)
      BY <2>1, <3>1, <3>2 DEF NoReward, Half, Full
    <3>4. \A i \in 1..Len(rewards) : rewards[i] > 0 <=> i = Len(rewards) /\ final = Full
      <4> SUFFICES ASSUME NEW i \in 1..Len(rewards)
                   PROVE  rewards[i] > 0 <=> i = Len(rewards) /\ final = Full
        OBVIOUS
      <4>1. CASE i = Len(rewards)
        BY <3>3, <4>1
      <4>2. CASE i # Len(rewards)
        BY <3>1, <3>2, <4>2
      <4> QED BY <4>1, <4>2
    <3> QED BY <3>2, <3>3, <3>4 DEF JudgedIfTrained, NoReward, Full
  <2> QED BY <2>2, <2>3
<1>3. IInv /\ Early => EmptyIsEarly
  BY DEF IInv, Early, Scored, Score, EmptyIsEarly, Stopping
<1>4. IInv /\ IInv' /\ Early /\ [Next]_vars => Early'
  BY EarlyStep
<1>5. JudgedIfTrained /\ EmptyIsEarly => ResultIsJudged
  BY DEF ResultIsJudged
<1> QED BY TrajectoryInvariant, <1>1, <1>2, <1>3, <1>4, <1>5, PTL DEF Spec
-----------------------------------------------------------------------------
(* An attempt in order: its reset, its steps, what follows them; raised    *)
(* comes after all of them, and the next attempt after raised.             *)
PartOf(place)  == CASE place = "reset" -> 0 [] place \in {"loop", "model", "step"} -> 1
                  [] place = "finish" -> 2 [] place = "reward" -> 3 [] place = "close" -> 4
                  [] place = "returned" -> 5 [] place = "raised" -> 6 [] OTHER -> 7
StageOf(place) == CASE place = "loop" -> 0 [] place = "model" -> 1 [] OTHER -> 2

(* The head of the loop knows what to do whatever made it stop or go on,   *)
(* and a raised attempt is repeated or given up: with the calls that end   *)
(* by their timeouts, there is always something to do.                     *)
NeverStuck ==
  /\ pc = "loop" => \/ stepIdx = MaxSteps
                    \/ /\ stepIdx < MaxSteps
                       /\ reason \in {"NO_CONTAINER", "PROMPT_TRUNCATION", NoReason}
  /\ pc = "raised" => attempt < RetryLimit \/ attempt = RetryLimit

(* No trajectory is stuck between two awaits (engine 294-327, 599-607).    *)
THEOREM TrajectoryNeverStuck == Spec => []NeverStuck
<1>1. IInv => NeverStuck
  <2> SUFFICES ASSUME IInv PROVE NeverStuck
    OBVIOUS
  <2>1. /\ stepIdx \in 0..MaxSteps /\ attempt \in 1..RetryLimit
        /\ pc = "loop" => reason \in Stopping \cup {NoReason, "MAX_STEPS"}
        /\ pc = "loop" /\ reason = "MAX_STEPS" => stepIdx = MaxSteps
    BY DEF IInv, TypeOK, Script
  <2> QED BY <2>1, TrajectoryAssumption DEF NeverStuck, Stopping
<1> QED BY <1>1, TrajectoryInvariant, PTL

(* Every step but the end of an abandoned env.step gets on: with the       *)
(* attempts, within one with its parts, within the loop with the steps,    *)
(* within a step with its stages and the retries of env.step.  TypeOK      *)
(* bounds each of these.                                                   *)
GetsOn ==
  [][LateStepEnds \/
     \/ attempt' > attempt
     \/ /\ attempt' = attempt
        /\ \/ PartOf(pc') > PartOf(pc)
           \/ /\ PartOf(pc') = PartOf(pc) /\ PartOf(pc) = 1
              /\ \/ stepIdx' > stepIdx
                 \/ /\ stepIdx' = stepIdx
                    /\ \/ StageOf(pc') > StageOf(pc)
                       \/ StageOf(pc') = StageOf(pc) /\ envTry' > envTry]_vars

(* No attempt, step or retry is entered twice (engine 294-396, 599-607).   *)
THEOREM TrajectoryGetsOn == Spec => GetsOn
<1>1. ASSUME TypeOK, Next, ~LateStepEnds
      PROVE  \/ attempt' > attempt
             \/ /\ attempt' = attempt
                /\ \/ PartOf(pc') > PartOf(pc)
                   \/ /\ PartOf(pc') = PartOf(pc) /\ PartOf(pc) = 1
                      /\ \/ stepIdx' > stepIdx
                         \/ /\ stepIdx' = stepIdx
                            /\ \/ StageOf(pc') > StageOf(pc)
                               \/ StageOf(pc') = StageOf(pc) /\ envTry' > envTry
  <2>1. attempt \in Nat /\ stepIdx \in Nat /\ envTry \in Nat
    BY <1>1, TrajectoryAssumption DEF TypeOK
  <2>2. CASE NextAttempt
    BY <2>1, <2>2 DEF NextAttempt
  <2>3. CASE \/ Reset \/ StopMessage \/ PromptTooLong \/ LoopEnds \/ Finish \/ GiveUp
             \/ EnvStepAbandoned \/ RewardComputed \/ Closed \/ AttemptFails
    <3>1. attempt' = attempt
      BY <2>3 DEF Reset, StopMessage, PromptTooLong, LoopEnds, Finish, GiveUp,
                  EnvStepAbandoned, RewardComputed, Closed, AttemptFails
    <3>2. PartOf(pc') > PartOf(pc)
      BY <2>3 DEF Reset, StopMessage, PromptTooLong, LoopEnds, Finish, GiveUp, PartOf,
                  EnvStepAbandoned, RewardComputed, Closed, AttemptFails, Awaiting
    <3> QED BY <3>1, <3>2
  <2>4. CASE AskModel \/ ModelResponds
    BY <2>4 DEF AskModel, ModelResponds, attemptVars, PartOf, StageOf
  <2>5. CASE EnvStepRetried
    BY <2>1, <2>5 DEF EnvStepRetried, PartOf
  <2>6. CASE EnvStepReturns
    <3>1. /\ pc = "step" /\ attempt' = attempt
          /\ pc' = "finish" \/ (pc' = "loop" /\ stepIdx' = stepIdx + 1)
      BY <2>6 DEF EnvStepReturns, StepDone, StepUnencodable, StepTruncated, StepLast,
                  StepContinues
    <3> QED BY <2>1, <3>1 DEF PartOf
  <2> QED BY <1>1, <2>2, <2>3, <2>4, <2>5, <2>6 DEF Next, Local, Answered
<1> QED BY <1>1, TypeCorrect, PTL DEF Spec, GetsOn
=============================================================================
