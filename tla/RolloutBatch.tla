---------------------------- MODULE RolloutBatch ----------------------------
(***************************************************************************)
(* One batch of rollouts: trajectory_generator of                          *)
(* rllm/engine/agent_execution_engine.py runs one trajectory per           *)
(* environment on one event loop and one thread pool, and                  *)
(* generate_agent_trajectories_async of                                    *)
(* rllm/trainer/verl/agent_ppo_trainer.py hands the results from the       *)
(* event loop's thread to the training loop through a queue that a         *)
(* sentinel ends.                                                          *)
(*                                                                         *)
(* A trajectory is seen here as the environment calls it awaits, one at a  *)
(* time: reset, step, reward, close (AgentTrajectory has the inside).      *)
(* Every call is a job of the pool.  A call given up on, because its       *)
(* wait_for expired, leaves the queue of the pool when no worker had taken *)
(* it, and otherwise keeps its worker until it ends by itself.             *)
(***************************************************************************)
EXTENDS Integers, Sequences, FiniteSets, SequencesExt

CONSTANTS
  Envs,        (* the indices of self.envs                                  *)
  EnvRetries,  (* self.env_response_retry_num                               *)
  RetryLimit,  (* self.retry_limit                                          *)
  Sentinel     (* the None that ends the queue                              *)

ASSUME BatchAssumption ==
  /\ IsFiniteSet(Envs) /\ Envs # {}
  /\ EnvRetries \in Nat \ {0}
  /\ RetryLimit \in Nat \ {0}
  /\ Sentinel \notin Envs

VARIABLES
  traj,      (* the state of each trajectory task                           *)
  call,      (* the environment call it awaits                              *)
  attempt,   (* its iteration of run_agent_trajectory_with_retry            *)
  envTry,    (* its iteration of the env.step retry loop                    *)
  pending,   (* the pool's queue of jobs, one per waiting environment       *)
  onThread,  (* the environments whose awaited call a worker executes       *)
  stuck,     (* the number of workers still held by calls given up on       *)
  finished,  (* the tasks in the order they completed (as_completed)        *)
  yielded,   (* how many of those the generator has taken                   *)
  gen,       (* "running", "finished" or "raised"                           *)
  awake,     (* the rollout engine between wake_up() and sleep()            *)
  queue,     (* the queue between the two threads                           *)
  got        (* what the training loop took from it                         *)

trajVars  == <<traj, call, attempt, envTry>>
poolVars  == <<pending, onThread, stuck>>
genVars   == <<finished, yielded, gen, awake>>
vars      == <<trajVars, poolVars, genVars, queue, got>>

Calls     == {"reset", "step", "reward", "close"}
NextCalls ==   \* after a call that returned; no reward when masked out
  [reset |-> {"step", "reward", "close"}, step |-> {"step", "reward", "close"},
   reward |-> {"close"}, close |-> {}]

(* trajectory_generator makes a pool of n_parallel_agents workers.         *)
Workers_oneShort == Cardinality(Envs) - 1
Workers == Cardinality(Envs)

Busy == Cardinality(onThread) + stuck

TypeOK ==
  /\ traj \in [Envs -> {"running", "returned", "failed", "cancelled"}]
  /\ call \in [Envs -> Calls]
  /\ attempt \in [Envs -> 1..RetryLimit]
  /\ envTry \in [Envs -> 1..EnvRetries]
  /\ pending \in Seq(Envs) /\ IsInjective(pending)
  /\ onThread \subseteq Envs
  /\ stuck \in Nat
  /\ Busy <= Workers
  /\ finished \in Seq(Envs)
  /\ yielded \in 0..Len(finished)
  /\ gen \in {"running", "finished", "raised"}
  /\ awake \in BOOLEAN
  /\ queue \in Seq(Envs \cup {Sentinel})
  /\ got \in Seq(Envs \cup {Sentinel})

(* All tasks start at once: every trajectory awaits its reset.             *)
Init ==
  /\ traj = [e \in Envs |-> "running"]
  /\ call = [e \in Envs |-> "reset"]
  /\ attempt = [e \in Envs |-> 1]
  /\ envTry = [e \in Envs |-> 1]
  /\ pending = SetToSeq(Envs)
  /\ onThread = {}
  /\ stuck = 0
  /\ finished = <<>> /\ yielded = 0 /\ gen = "running" /\ awake = TRUE
  /\ queue = <<>> /\ got = <<>>
-----------------------------------------------------------------------------
(* A free worker takes the oldest job.                                     *)
TakeJob ==
  /\ pending # <<>>
  /\ Busy < Workers
  /\ onThread' = onThread \cup {Head(pending)}
  /\ pending' = Tail(pending)
  /\ UNCHANGED <<trajVars, stuck, genVars, queue, got>>

(* The event loop stops awaiting the call of e.                            *)
Abandon(e) ==
  /\ onThread' = onThread \ {e}
  /\ stuck' = IF e \in onThread THEN stuck + 1 ELSE stuck

Without(e) == RemoveFirst(pending, e)

(* The awaited call of e returns: the coroutine goes on to the next one,   *)
(* or, after close, returns its result.                                    *)
CallReturns(e) ==
  /\ e \in onThread
  /\ onThread' = onThread \ {e}
  /\ IF call[e] = "close"
     THEN /\ traj' = [traj EXCEPT ![e] = "returned"]
          /\ finished' = Append(finished, e)
          /\ UNCHANGED <<call, envTry, pending>>
     ELSE /\ \E c \in NextCalls[call[e]] : call' = [call EXCEPT ![e] = c]
          /\ envTry' = [envTry EXCEPT ![e] = 1]
          /\ pending' = Append(pending, e)
          /\ UNCHANGED <<traj, finished>>
  /\ UNCHANGED <<attempt, stuck, yielded, gen, awake, queue, got>>

StepTimesOut_keepsJob(e) ==
  /\ traj[e] = "running" /\ call[e] = "step"
  /\ Abandon(e)
  /\ pending' = Append(pending, e)
  /\ IF envTry[e] < EnvRetries
     THEN envTry' = [envTry EXCEPT ![e] = @ + 1] /\ UNCHANGED call
     ELSE call' = [call EXCEPT ![e] = "reward"] /\ UNCHANGED envTry
  /\ UNCHANGED <<traj, attempt, genVars, queue, got>>

(* wait_for(env.step) expires: the step is issued again, or, when the      *)
(* retries are spent, the trajectory goes on to its reward (ENV_TIMEOUT).  *)
StepTimesOut(e) ==
  /\ traj[e] = "running" /\ call[e] = "step"
  /\ Abandon(e)
  /\ pending' = Append(Without(e), e)
  /\ IF envTry[e] < EnvRetries
     THEN envTry' = [envTry EXCEPT ![e] = @ + 1] /\ UNCHANGED call
     ELSE call' = [call EXCEPT ![e] = "reward"] /\ UNCHANGED envTry
  /\ UNCHANGED <<traj, attempt, genVars, queue, got>>

(* An attempt ends without a result: it is started again, or the           *)
(* trajectory has failed.                                                  *)
EndAttempt(e) ==
  IF attempt[e] < RetryLimit
  THEN /\ attempt' = [attempt EXCEPT ![e] = @ + 1]
       /\ call' = [call EXCEPT ![e] = "reset"]
       /\ envTry' = [envTry EXCEPT ![e] = 1]
       /\ pending' = Append(Without(e), e)
       /\ UNCHANGED <<traj, finished>>
  ELSE /\ traj' = [traj EXCEPT ![e] = "failed"]
       /\ finished' = Append(finished, e)
       /\ pending' = Without(e)
       /\ UNCHANGED <<attempt, call, envTry>>

(* The awaited call raises.                                                *)
CallRaises(e) ==
  /\ e \in onThread
  /\ onThread' = onThread \ {e}
  /\ EndAttempt(e)
  /\ UNCHANGED <<stuck, yielded, gen, awake, queue, got>>

(* wait_for(run_agent_trajectory_async, 7200) expires.                     *)
Deadline(e) ==
  /\ traj[e] = "running"
  /\ Abandon(e)
  /\ EndAttempt(e)
  /\ UNCHANGED <<yielded, gen, awake, queue, got>>

(* A call given up on ends after all, and its worker is free again.        *)
StuckEnds ==
  /\ stuck > 0
  /\ stuck' = stuck - 1
  /\ UNCHANGED <<trajVars, pending, onThread, genVars, queue, got>>
-----------------------------------------------------------------------------
Taken == finished[yielded + 1]

(* The generator yields the next completed result; consume() puts it in    *)
(* the queue.                                                              *)
Yield ==
  /\ gen = "running" /\ yielded < Len(finished)
  /\ traj[Taken] = "returned"
  /\ queue' = Append(queue, Taken)
  /\ yielded' = yielded + 1
  /\ UNCHANGED <<trajVars, poolVars, finished, gen, awake, got>>

(* The next completed task failed: the exception leaves the generator and  *)
(* consume(), past sleep(), shutdown() and the sentinel, and asyncio.run   *)
(* cancels the other tasks.                                                *)
GeneratorRaises_cancelsNothing ==
  /\ gen = "running" /\ yielded < Len(finished)
  /\ traj[Taken] = "failed"
  /\ gen' = "finished" /\ awake' = FALSE
  /\ queue' = Append(queue, Sentinel)
  /\ UNCHANGED <<trajVars, poolVars, finished, yielded, got>>

GeneratorRaises ==
  /\ gen = "running" /\ yielded < Len(finished)
  /\ traj[Taken] = "failed"
  /\ gen' = "raised"
  /\ traj' = [e \in Envs |-> IF traj[e] = "running" THEN "cancelled" ELSE traj[e]]
  /\ pending' = <<>>
  /\ stuck' = stuck + Cardinality(onThread)
  /\ onThread' = {}
  /\ UNCHANGED <<call, attempt, envTry, finished, yielded, awake, queue, got>>

(* Every result was yielded: the rollout engine sleeps, the pool is shut   *)
(* down and the sentinel follows the results.                              *)
GeneratorEnds_early ==
  /\ gen = "running" /\ yielded = Len(finished)
  /\ \E e \in Envs : traj[e] = "returned"
  /\ gen' = "finished" /\ awake' = FALSE
  /\ queue' = Append(queue, Sentinel)
  /\ UNCHANGED <<trajVars, poolVars, finished, yielded, got>>

GeneratorEnds_noSentinel ==
  /\ gen = "running" /\ yielded = Cardinality(Envs)
  /\ gen' = "finished" /\ awake' = FALSE
  /\ UNCHANGED <<trajVars, poolVars, finished, yielded, queue, got>>

GeneratorEnds ==
  /\ gen = "running" /\ yielded = Cardinality(Envs)
  /\ gen' = "finished" /\ awake' = FALSE
  /\ queue' = Append(queue, Sentinel)
  /\ UNCHANGED <<trajVars, poolVars, finished, yielded, got>>

ConsumerEnded == Sentinel \in ToSet(got)

(* The training loop's queue.get().                                        *)
Consume ==
  /\ ~ConsumerEnded
  /\ queue # <<>>
  /\ got' = Append(got, Head(queue))
  /\ queue' = Tail(queue)
  /\ UNCHANGED <<trajVars, poolVars, genVars>>

EventLoop == Yield \/ GeneratorRaises \/ GeneratorEnds

Next ==
  \/ TakeJob \/ EventLoop \/ Consume \/ StuckEnds
  \/ \E e \in Envs :
       CallReturns(e) \/ StepTimesOut(e) \/ CallRaises(e) \/ Deadline(e)

(* The two threads run and timers expire; no environment call is assumed   *)
(* to return.                                                              *)
Fairness ==
  /\ WF_vars(TakeJob) /\ WF_vars(EventLoop) /\ WF_vars(Consume)
  /\ \A e \in Envs : WF_vars(Deadline(e))

Spec == Init /\ [][Next]_vars /\ Fairness
-----------------------------------------------------------------------------
(* Safety: what reaches the training loop is the results of distinct       *)
(* trajectories that returned, and when the loop ends it has one of every  *)
(* environment, so that the batch lines up with its prompts (engine        *)
(* 641-656, agent_ppo_trainer 846-859).                                    *)
ResultsOnce ==
  LET results == ToSet(got) \ {Sentinel} IN
    /\ IsInjective(got)
    /\ \A e \in results : traj[e] = "returned"
    /\ ConsumerEnded => results = Envs

(* Safety: the rollout engine is not put to sleep, its weights offloaded,  *)
(* while a trajectory may still ask it for tokens (engine 619-620,         *)
(* 653-654).                                                               *)
AwakeWhileRunning ==
  (\E e \in Envs : traj[e] = "running") => awake

(* Safety: with one worker per environment a call waits for a worker only  *)
(* behind a call that was given up on and has not ended (engine 614-617,   *)
(* 375-396): the pool by itself never delays a trajectory.                 *)
WaitsOnlyBehindStuck ==
  pending # <<>> /\ Busy >= Workers => stuck > 0

(* Both together: what a running trajectory needs is there.                *)
RunningIsServed == AwakeWhileRunning /\ WaitsOnlyBehindStuck

(* Liveness: whatever the environment calls do, the batch settles: the     *)
(* training loop has all results, or the generator has raised (engine      *)
(* 599-656).                                                               *)
BatchSettles == <>(ConsumerEnded \/ gen = "raised")

(* The comment on the sentinel, "to signal done" (agent_ppo_trainer 850):  *)
(* the training loop, which waits for it, is always told that the          *)
(* generator is done.                                                      *)
ConsumerEnds == <>ConsumerEnded
=============================================================================
