--------------------------- MODULE AgentTrajectory ---------------------------
(***************************************************************************)
(* rllm/engine/agent_execution_engine.py: one trajectory of the rollout    *)
(* engine, run_agent_trajectory_async inside run_agent_trajectory_with_    *)
(* retry, on one agent (swe_agent.py) and one environment (swe_arsenal.py  *)
(* over R2E-Gym's RepoEnv).                                                *)
(*                                                                         *)
(* The coroutine runs alone between two awaits, so one action stands for   *)
(* the code from one await to the next.  The awaits are env.reset, the     *)
(* model call, env.step, env.compute_final_reward and env.close; the       *)
(* environment calls run on executor threads.  A timed out env.step is not *)
(* stopped: its thread goes on while the same action is issued again.      *)
(*                                                                         *)
(* Tokens are abstracted to who wrote them, rewards are counted in halves, *)
(* and the elapsed time is a choice wherever the code compares it.         *)
(***************************************************************************)
EXTENDS Integers, Sequences

CONSTANTS
  MaxSteps,           (* self.max_steps                                     *)
  MaxResponseLength,  (* self.max_response_length                           *)
  ModelLens,          (* token counts an assistant message may have         *)
  EnvLens,            (* token counts the environment's messages may have   *)
  StopLen,            (* token count of the "I will stop" message           *)
  EnvRetries,         (* self.env_response_retry_num                        *)
  RetryLimit          (* self.retry_limit                                   *)

ASSUME TrajectoryAssumption ==
  /\ MaxSteps \in Nat \ {0}
  /\ MaxResponseLength \in Nat \ {0}
  /\ ModelLens \subseteq Nat \ {0}
  /\ EnvLens \subseteq Nat
  /\ StopLen \in Nat \ {0}
  /\ EnvRetries \in Nat \ {0}
  /\ RetryLimit \in Nat \ {0}

VARIABLES
  opts,          (* enforce_max_prompt_length and overlong_filter           *)
  attempt,       (* the iteration of run_agent_trajectory_with_retry        *)
  pc,            (* where the coroutine is                                  *)
  reason,        (* termination_reason                                      *)
  stepIdx,       (* step_idx                                                *)
  rewards,       (* agent.trajectory.steps: the reward of each step         *)
  tokens,        (* response_tokens: the author of each token               *)
  masks,         (* response_masks                                          *)
  respLen,       (* response_token_len                                      *)
  counted,       (* model_gen_tokens_len + env_tokens_len                   *)
  envTry,        (* retry_num_get_env_response, counted from 1              *)
  stepping,      (* executor threads inside env.step, timed out ones too    *)
  final,         (* what env.compute_final_reward returned, or NoReward     *)
  maskedOut,     (* masked_out                                              *)
  hasRepo,       (* env.env is a RepoEnv                                    *)
  container,     (* of its runtime: "absent", "running" or "removed"        *)
  hasContainer   (* env.has_container                                       *)

attemptVars == <<reason, stepIdx, rewards, tokens, masks, respLen, counted,
                 envTry, final, maskedOut>>
envVars     == <<hasRepo, container, hasContainer>>
vars        == <<opts, attempt, pc, attemptVars, stepping, envVars>>

NoReason == "none"
Reasons  == {"NO_CONTAINER", "PROMPT_TRUNCATION", "ENV_TIMEOUT", "ENCODE_ERROR",
             "TRUNCATION", "TRAJ_TIMEOUT", "ENV_DONE", "MAX_STEPS"}
Authors  == {"model", "env", "stop"}
NoReward == -1
Half     == 1
Full     == 2

Awaiting == {"reset", "model", "step", "reward", "close"}
PCs      == Awaiting \cup {"loop", "finish", "raised", "returned", "failed"}

TypeOK ==
  /\ opts \in [enforce : BOOLEAN, filter : BOOLEAN]
  /\ attempt \in 1..RetryLimit
  /\ pc \in PCs
  /\ reason \in Reasons \cup {NoReason}
  /\ stepIdx \in 0..MaxSteps
  /\ rewards \in Seq({0, Half, Full})
  /\ tokens \in Seq(Authors)
  /\ masks \in Seq({0, 1})
  /\ respLen \in Nat /\ counted \in Nat
  /\ envTry \in 1..EnvRetries
  /\ stepping \in Nat
  /\ final \in {NoReward, 0, Full}
  /\ maskedOut \in BOOLEAN
  /\ hasRepo \in BOOLEAN
  /\ container \in {"absent", "running", "removed"}
  /\ hasContainer \in BOOLEAN

(* n tokens of one author, and the mask convert_messages_to_tokens_and_    *)
(* masks gives them: 1 for the assistant role, 0 for user and tool.        *)
TokensOf(author, n) == [i \in 1..n |-> author]
MaskOf_everyone(author) == 1
MaskOf(author)      == IF author = "env" THEN 0 ELSE 1
MasksOf(toks)       == [i \in 1..Len(toks) |-> MaskOf(toks[i])]
-----------------------------------------------------------------------------
FreshAttempt ==
  /\ stepIdx' = 0
  /\ rewards' = <<>>
  /\ tokens' = <<>>
  /\ masks' = <<>>
  /\ respLen' = 0
  /\ counted' = 0
  /\ envTry' = 1
  /\ final' = NoReward
  /\ maskedOut' = FALSE

Init ==
  /\ opts \in [enforce : BOOLEAN, filter : BOOLEAN]
  /\ attempt = 1 /\ pc = "reset" /\ reason = NoReason
  /\ stepIdx = 0 /\ rewards = <<>> /\ tokens = <<>> /\ masks = <<>>
  /\ respLen = 0 /\ counted = 0 /\ envTry = 1
  /\ stepping = 0 /\ final = NoReward /\ maskedOut = FALSE
  /\ hasRepo = FALSE /\ container = "absent" /\ hasContainer = FALSE

(* SWEEnv.reset has run: has_container is set to FALSE first, and back to  *)
(* TRUE only where the RepoEnv is created.  RepoEnv.reset closes the old   *)
(* runtime and starts another; a start that fails leaves no container.     *)
EnvReset(c) ==
  /\ c \in {"absent", "running"}
  /\ container' = c
  /\ hasContainer' = (~hasRepo /\ c = "running")
  /\ hasRepo' = TRUE

(* env.reset returns; the agent is reset and given the first observation;  *)
(* an initial prompt that is too long replaces the reason.                 *)
Reset ==
  /\ pc = "reset"
  /\ \E c \in {"absent", "running"}, tooLong \in BOOLEAN :
       /\ EnvReset(c)
       /\ reason' = IF tooLong THEN "PROMPT_TRUNCATION"
                    ELSE IF ~hasContainer' THEN "NO_CONTAINER" ELSE NoReason
  /\ FreshAttempt
  /\ pc' = "loop"
  /\ UNCHANGED <<opts, attempt, stepping>>

(* The head of the step loop: a trajectory that cannot start gets the      *)
(* "I will stop" assistant message and leaves.                             *)
StopMessage ==
  /\ pc = "loop" /\ stepIdx < MaxSteps
  /\ reason \in {"NO_CONTAINER", "PROMPT_TRUNCATION"}
  /\ tokens' = tokens \o TokensOf("stop", StopLen)
  /\ masks' = masks \o MasksOf(TokensOf("stop", StopLen))
  /\ pc' = "finish"
  /\ UNCHANGED <<opts, attempt, reason, stepIdx, rewards, respLen, counted,
                 envTry, final, maskedOut, stepping, envVars>>

(* With enforce_max_prompt_length the prompt of every step is checked.     *)
PromptTooLong ==
  /\ pc = "loop" /\ stepIdx < MaxSteps /\ reason = NoReason
  /\ opts.enforce
  /\ reason' = "PROMPT_TRUNCATION"
  /\ pc' = "finish"
  /\ UNCHANGED <<opts, attempt, stepIdx, rewards, tokens, masks, respLen,
                 counted, envTry, final, maskedOut, stepping, envVars>>

(* kwargs["max_tokens"] of the model call.                                 *)
MaxTokens ==
  IF opts.enforce THEN MaxResponseLength ELSE MaxResponseLength - respLen

AskModel ==
  /\ pc = "loop" /\ stepIdx < MaxSteps /\ reason = NoReason
  /\ pc' = "model"
  /\ UNCHANGED <<opts, attempt, attemptVars, stepping, envVars>>

(* The response arrives: update_from_model appends a step to the agent's   *)
(* trajectory and env.step goes to an executor thread.                     *)
ModelResponds ==
  /\ pc = "model"
  /\ rewards' = Append(rewards, 0)
  /\ envTry' = 1
  /\ stepping' = stepping + 1
  /\ pc' = "step"
  /\ UNCHANGED <<opts, attempt, reason, stepIdx, tokens, masks, respLen,
                 counted, final, maskedOut, envVars>>
-----------------------------------------------------------------------------
EnvStepRetried_oneMore ==
  /\ pc = "step" /\ envTry <= EnvRetries
  /\ envTry' = envTry + 1
  /\ stepping' = stepping + 1
  /\ UNCHANGED <<opts, attempt, pc, reason, stepIdx, rewards, tokens, masks,
                 respLen, counted, final, maskedOut, envVars>>

(* wait_for expires and the action is issued to another thread ...         *)
EnvStepRetried ==
  /\ pc = "step" /\ envTry < EnvRetries
  /\ envTry' = envTry + 1
  /\ stepping' = stepping + 1
  /\ UNCHANGED <<opts, attempt, pc, reason, stepIdx, rewards, tokens, masks,
                 respLen, counted, final, maskedOut, envVars>>

(* ... or the retries are spent.                                           *)
EnvStepAbandoned ==
  /\ pc = "step" /\ envTry = EnvRetries
  /\ reason' = "ENV_TIMEOUT"
  /\ pc' = "finish"
  /\ UNCHANGED <<opts, attempt, stepIdx, rewards, tokens, masks, respLen,
                 counted, envTry, final, maskedOut, stepping, envVars>>

(* A timed out env.step ends by itself, at any later time.                 *)
LateStepEnds ==
  /\ stepping > IF pc = "step" THEN 1 ELSE 0
  /\ stepping' = stepping - 1
  /\ UNCHANGED <<opts, attempt, pc, attemptVars, envVars>>

(* env.step returned; what follows is the accounting of the step whose     *)
(* assistant message has a tokens and whose observation has e.             *)
StepTokens(a, e) == TokensOf("model", a) \o TokensOf("env", e)

Overlong_offByOne(a, e) == ~opts.enforce /\ respLen + a + e > MaxResponseLength
Overlong(a, e) == ~opts.enforce /\ respLen + a + e >= MaxResponseLength

(* x[:truncation_length], truncation_length being negative or zero.        *)
Truncated_keepAll(a, e) == StepTokens(a, e)
Truncated(a, e) ==
  SubSeq(StepTokens(a, e), 1, MaxResponseLength - respLen)

StepDone ==
  /\ pc = "step"
  /\ stepping' = stepping - 1
  /\ UNCHANGED <<opts, attempt, envTry, final, maskedOut, envVars>>

(* A message cannot be encoded.                                            *)
StepUnencodable ==
  /\ StepDone
  /\ reason' = "ENCODE_ERROR"
  /\ pc' = "finish"
  /\ UNCHANGED <<stepIdx, rewards, tokens, masks, respLen, counted>>

(* The response limit is reached: the step is cut to fit.                  *)
StepTruncated(a, e) ==
  /\ StepDone
  /\ Overlong(a, e)
  /\ respLen' = respLen + a + e
  /\ counted' = counted + a + e
  /\ tokens' = tokens \o Truncated(a, e)
  /\ masks' = masks \o MasksOf(Truncated(a, e))
  /\ rewards' = IF respLen + a > MaxResponseLength
                THEN [rewards EXCEPT ![Len(rewards)] = 0] ELSE rewards
  /\ reason' = "TRUNCATION"
  /\ pc' = "finish"
  /\ UNCHANGED stepIdx

(* The trajectory's time is up, or the episode is over: the assistant      *)
(* message is kept and the observation is not.                             *)
StepLast_keepsObservation(a, e, why) ==
  /\ StepDone
  /\ ~Overlong(a, e)
  /\ respLen' = respLen + a + e
  /\ counted' = counted + a
  /\ tokens' = tokens \o StepTokens(a, e)
  /\ masks' = masks \o MasksOf(StepTokens(a, e))
  /\ reason' = why
  /\ pc' = "finish"
  /\ UNCHANGED <<stepIdx, rewards>>

StepLast(a, e, why) ==
  /\ StepDone
  /\ ~Overlong(a, e)
  /\ respLen' = respLen + a + e
  /\ counted' = counted + a
  /\ tokens' = tokens \o TokensOf("model", a)
  /\ masks' = masks \o MasksOf(TokensOf("model", a))
  /\ reason' = why
  /\ pc' = "finish"
  /\ UNCHANGED <<stepIdx, rewards>>

(* The loop goes on; the last iteration notes MAX_STEPS.                   *)
StepContinues_forgetsObservation(a, e) ==
  /\ StepDone
  /\ ~Overlong(a, e)
  /\ respLen' = respLen + a
  /\ counted' = counted + a + e
  /\ tokens' = tokens \o StepTokens(a, e)
  /\ masks' = masks \o MasksOf(StepTokens(a, e))
  /\ reason' = IF stepIdx = MaxSteps - 1 THEN "MAX_STEPS" ELSE reason
  /\ stepIdx' = stepIdx + 1
  /\ pc' = "loop"
  /\ UNCHANGED rewards

StepContinues(a, e) ==
  /\ StepDone
  /\ ~Overlong(a, e)
  /\ respLen' = respLen + a + e
  /\ counted' = counted + a + e
  /\ tokens' = tokens \o StepTokens(a, e)
  /\ masks' = masks \o MasksOf(StepTokens(a, e))
  /\ reason' = IF stepIdx = MaxSteps - 1 THEN "MAX_STEPS" ELSE reason
  /\ stepIdx' = stepIdx + 1
  /\ pc' = "loop"
  /\ UNCHANGED rewards

EnvStepReturns ==
  \/ StepUnencodable
  \/ \E a \in ModelLens, e \in EnvLens :
       \/ StepTruncated(a, e)
       \/ \E why \in {"TRAJ_TIMEOUT", "ENV_DONE"} : StepLast(a, e, why)
       \/ StepContinues(a, e)

(* All max_steps iterations are spent.                                     *)
LoopEnds ==
  /\ pc = "loop" /\ stepIdx = MaxSteps
  /\ pc' = "finish"
  /\ UNCHANGED <<opts, attempt, attemptVars, stepping, envVars>>
-----------------------------------------------------------------------------
(* After the loop.  The overlong filter masks some trajectories out whole  *)
(* and halves the reward of others.                                        *)
MaskedReasons_noStop == {"PROMPT_TRUNCATION", "ENCODE_ERROR"}
MaskedReasons == {"NO_CONTAINER", "PROMPT_TRUNCATION", "ENCODE_ERROR"}
HalvedReasons == {"TRUNCATION", "MAX_STEPS", "TRAJ_TIMEOUT"}

Masked == opts.filter /\ reason \in MaskedReasons
Halved == opts.filter /\ reason \in HalvedReasons

Finish_keepsMasks ==
  /\ pc = "finish"
  /\ maskedOut' = Masked
  /\ pc' = IF Masked THEN "close"
           ELSE IF rewards = <<>> THEN "raised" ELSE "reward"
  /\ UNCHANGED <<opts, attempt, reason, stepIdx, rewards, tokens, masks, respLen,
                 counted, envTry, stepping, final, envVars>>

(* A trajectory that is not masked out is scored; get_current_state        *)
(* asserts that it has a step to put the reward on.                        *)
Finish ==
  /\ pc = "finish"
  /\ maskedOut' = Masked
  /\ masks' = IF Masked THEN [i \in 1..Len(masks) |-> 0] ELSE masks
  /\ pc' = IF Masked THEN "close"
           ELSE IF rewards = <<>> THEN "raised" ELSE "reward"
  /\ UNCHANGED <<opts, attempt, reason, stepIdx, rewards, tokens, respLen,
                 counted, envTry, stepping, final, envVars>>

(* compute_final_reward returns 0 or 1; it replaces the last step's reward *)
(* whatever the loop left there.                                           *)
RewardComputed ==
  /\ pc = "reward"
  /\ \E r \in {0, Full} :
       /\ final' = r
       /\ rewards' = [rewards EXCEPT ![Len(rewards)] =
                          IF Halved /\ r = Full THEN Half ELSE r]
  /\ pc' = "close"
  /\ UNCHANGED <<opts, attempt, reason, stepIdx, tokens, masks, respLen,
                 counted, envTry, stepping, maskedOut, envVars>>

(* env.close: stop_container swallows its errors and keeps its handle.     *)
EnvClose ==
  /\ container' \in IF container = "running" THEN {"running", "removed"}
                     ELSE {container}
  /\ UNCHANGED <<hasRepo, hasContainer>>

Closed ==
  /\ pc = "close"
  /\ EnvClose
  /\ pc' = "returned"
  /\ UNCHANGED <<opts, attempt, attemptVars, stepping>>

(* The attempt ends in an exception at one of its awaits: the call raised, *)
(* or the 7200 s wait_for of run_agent_trajectory_with_retry cancelled it. *)
(* An executor thread is not stopped by that: a step goes on, a reset or a *)
(* close may still take effect, in whole or in part.                       *)
ResetInterrupted ==
  \/ UNCHANGED envVars
  \/ \E c \in {"absent", "running"} : EnvReset(c)
  \/ /\ container' = IF container = "running" THEN "removed" ELSE container
     /\ hasContainer' = FALSE
     /\ UNCHANGED hasRepo

AttemptFails ==
  /\ pc \in Awaiting
  /\ pc' = "raised"
  /\ CASE pc = "reset" -> ResetInterrupted
       [] pc = "close" -> EnvClose \/ UNCHANGED envVars
       [] OTHER        -> UNCHANGED envVars
  /\ UNCHANGED <<opts, attempt, attemptVars, stepping>>

NextAttempt_unlimited ==
  /\ pc = "raised"
  /\ attempt' = 1
  /\ pc' = "reset"
  /\ UNCHANGED <<opts, attemptVars, stepping, envVars>>

NextAttempt ==
  /\ pc = "raised" /\ attempt < RetryLimit
  /\ attempt' = attempt + 1
  /\ pc' = "reset"
  /\ UNCHANGED <<opts, attemptVars, stepping, envVars>>

GiveUp ==
  /\ pc = "raised" /\ attempt = RetryLimit
  /\ pc' = "failed"
  /\ UNCHANGED <<opts, attempt, attemptVars, stepping, envVars>>

(* Code that runs without awaiting anything outside the event loop.        *)
Local ==
  \/ StopMessage \/ PromptTooLong \/ AskModel \/ LoopEnds \/ Finish
  \/ NextAttempt \/ GiveUp

(* What the model server, the executor threads and the container answer.   *)
Answered ==
  \/ Reset \/ ModelResponds \/ EnvStepReturns \/ EnvStepRetried
  \/ EnvStepAbandoned \/ LateStepEnds \/ RewardComputed \/ Closed

Next == Local \/ Answered \/ AttemptFails

(* The event loop runs what is ready, and the wait_for around an attempt   *)
(* expires; nothing is assumed of the model server or of the containers.   *)
Fairness == WF_vars(Local) /\ WF_vars(AttemptFails)

Spec == Init /\ [][Next]_vars /\ Fairness
-----------------------------------------------------------------------------
(* Safety: every token keeps its mask, and the loss mask selects exactly   *)
(* what the assistant wrote, through truncation and the dropped last       *)
(* observation; nothing of a masked out trajectory is selected (engine     *)
(* 435-504, 512-519, agents/utils.py 73-74).                               *)
MaskSelectsModel ==
  /\ Len(masks) = Len(tokens)
  /\ \A i \in 1..Len(tokens) :
       masks[i] = IF tokens[i] # "env" /\ ~maskedOut THEN 1 ELSE 0

(* Safety: without the per-step prompt check a trajectory that ran never   *)
(* exceeds the response limit, and TRUNCATION means it fills it exactly    *)
(* (engine 334-335, 455-481).                                              *)
ResponseFits ==
  ~opts.enforce /\ reason \notin {"NO_CONTAINER", "PROMPT_TRUNCATION"} =>
    /\ Len(tokens) <= MaxResponseLength
    /\ reason = "TRUNCATION" => Len(tokens) = MaxResponseLength

(* Safety: whenever the model is asked, the budget counter agrees with the *)
(* tokens kept, so the model is given what is left and at least one token; *)
(* and the reported token counts add up unless the step was cut (engine    *)
(* 334-346, 455-504, 580-584).                                             *)
BudgetIsExact ==
  /\ pc \in {"model", "step"} =>
       /\ respLen = Len(tokens)
       /\ MaxTokens >= 1
  /\ reason \notin {"TRUNCATION", "NO_CONTAINER", "PROMPT_TRUNCATION"} =>
       counted = Len(tokens)

(* Safety: an episode that ended, or ran out of time, is trained on up to  *)
(* the assistant's last message: no observation follows it (engine         *)
(* 484-504).                                                               *)
EndsOnModelTurn ==
  pc \in {"finish", "reward", "close", "returned"}
    /\ reason \in {"ENV_DONE", "TRAJ_TIMEOUT"} =>
       tokens # <<>> /\ tokens[Len(tokens)] = "model"

(* Safety: the invented "I will stop" message never reaches the loss: with *)
(* the filter on it is masked, with the filter off such an attempt cannot  *)
(* return at all (engine 295-327, 512-533, swe_agent.py 217-219).          *)
StopMessageNotTrained ==
  pc = "returned" =>
    \A i \in 1..Len(tokens) : tokens[i] = "stop" => masks[i] = 0

(* What the loss is computed on, the three together.                       *)
LossOnOwnTurns == MaskSelectsModel /\ EndsOnModelTurn /\ StopMessageNotTrained

(* The token budget, the two together.                                     *)
BudgetHolds == ResponseFits /\ BudgetIsExact

(* Safety: nothing reaches the loss of a returned trajectory that was not  *)
(* judged by compute_final_reward, on whichever exit; and the one step     *)
(* with a reward is the last step of a trajectory that was judged solved,  *)
(* whatever env.step, truncation or the filter left on it before (engine   *)
(* 398-403, 464-481, 506-533).                                             *)
JudgedIfTrained ==
  pc = "returned" =>
    /\ (\E i \in 1..Len(masks) : masks[i] = 1) => final # NoReward
    /\ {i \in 1..Len(rewards) : rewards[i] > 0} =
         IF final = Full THEN {Len(rewards)} ELSE {}

(* Safety: what the training step relies on of a result.  It has no tokens *)
(* only when the very first step was given up on, could not be encoded or  *)
(* not be asked for - one that could not start has the invented message -, *)
(* and no steps only when it is masked out (engine 294-332, 398-407,       *)
(* 442-452; agent_ppo_trainer 625).                                        *)
EmptyIsEarly ==
  pc = "returned" =>
    /\ tokens = <<>> => /\ reason \in {"ENV_TIMEOUT", "ENCODE_ERROR", "PROMPT_TRUNCATION"}
                        /\ stepIdx = 0
    /\ rewards = <<>> => maskedOut /\ reason \in {"NO_CONTAINER", "PROMPT_TRUNCATION"}

(* What the training step gets, the two together.                          *)
ResultIsJudged == JudgedIfTrained /\ EmptyIsEarly

(* Liveness: a trajectory returns or fails, even if the server, the        *)
(* container or an executor thread never answers (engine 371-396,          *)
(* 599-607).                                                               *)
Terminates == <>(pc \in {"returned", "failed"})

(* overlong_filter, "Filter for overlong trajectories (i.e. TRUNCATION,    *)
(* MAX_STEPS, TIMEOUT)" (engine 56, and 517): such a trajectory is masked  *)
(* out.  The code halves its reward and trains on it (engine 521-533).     *)
OverlongIsMasked ==
  pc = "returned" /\ opts.filter /\ reason \in {"TRUNCATION", "MAX_STEPS", "TRAJ_TIMEOUT"} =>
    \A i \in 1..Len(masks) : masks[i] = 0

(* The message of a NO_CONTAINER trajectory, "env initialization failed"   *)
(* (engine 297): the environment it is about has no container.             *)
NoContainerIsTrue ==
  pc = "loop" /\ reason = "NO_CONTAINER" => container # "running"
=============================================================================
