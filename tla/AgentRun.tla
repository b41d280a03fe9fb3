------------------------------ MODULE AgentRun ------------------------------
(***************************************************************************)
(* One call of runagent (run/edit.py): the R2E-Gym agent is run on one     *)
(* container, again and again until it finishes by itself, and the history *)
(* it shows the model is compressed on the way (memory/memory.py).  The    *)
(* program is sequential; what it meets (the model's answers, failing      *)
(* queries and tools, slow turns) is chosen by the environment.            *)
(*                                                                         *)
(* Turns are numbered from 0, as step_idx.  A message is                   *)
(* [kind, turns, made]: the turns it is about and the value of step_count  *)
(* when it was written; its text is left out.                              *)
(***************************************************************************)
EXTENDS Integers, Sequences, SequencesExt, FiniteSetsExt

CONSTANTS
  Windows,           (* values of summary_window to start with          *)
  Keeps,             (* values of keep_recent                           *)
  Triggers,          (* values of compression_trigger_step              *)
  Restarts,          (* values of num_restarts                          *)
  Iterations,        (* values of max_iterations                        *)
  MaxSteps,          (* max_steps // num_restarts                       *)
  MaxStepsAbsolute   (* the steps that end a run of the agent           *)

ASSUME ArgumentsAssumption ==
  /\ Windows \subseteq Nat \ {0} /\ Keeps \subseteq Nat
  /\ Triggers \subseteq Nat
  /\ MaxSteps \in Nat /\ MaxStepsAbsolute \in Nat \ {0}
  /\ Restarts \subseteq Nat \ {0} /\ Iterations \subseteq Nat \ {0}

(* run_agent_with_restarts asserts that only one of the two loops loops.   *)
Args ==
  {a \in [compress : BOOLEAN, window : Windows, keep : Keeps,
          trigger : Triggers, restarts : Restarts, iterations : Iterations] :
     a.restarts = 1 \/ a.iterations = 1}

VARIABLES
  args,              (* the command line's arguments                     *)
  pc,
  iteration, idx,    (* the two loops of run_agent_with_restarts         *)
  trajectories,      (* the trajectories of the iterations so far        *)
  chosen,            (* the trajectory it returns, as <<t>>              *)
  envDone,           (* RepoEnv.done                                     *)
  container,         (* whether the container runs                       *)
  history,           (* Agent.history                                    *)
  stepCount,         (* step_count = len(trajectory_steps)               *)
  submitted,         (* the last action was a finish or submit           *)
  exitReason,
  memory             (* Memory: what reset() sets                        *)

loopVars == <<iteration, idx, trajectories>>
runVars  == <<history, stepCount, submitted, exitReason, memory>>
vars == <<args, pc, loopVars, chosen, envDone, container, runVars>>

Turns == 0..(MaxStepsAbsolute - 1)
Prompt == [kind |-> "prompt", turns |-> <<>>, made |-> 0]
Message(kind, turns) == [kind |-> kind, turns |-> turns, made |-> stepCount]
ExitReasons ==
  {"agent", "max_step_limit", "agent_max_step_limit", "token_limit",
   "abs_step_limit", "traj_time_limit", "llm_query_error"}
Trajectories == [exit : ExitReasons, steps : 0..MaxStepsAbsolute,
                 submitted : BOOLEAN]

TypeOK ==
  /\ args \in Args
  /\ pc \in {"setup", "turn", "query", "ended", "reward", "returned",
             "raised"}
  /\ iteration \in 0..(args.iterations - 1) /\ idx \in 0..(args.restarts - 1)
  /\ trajectories \in Seq(Trajectories) /\ Len(trajectories) <= args.iterations
  /\ chosen \in Seq(Trajectories) /\ Len(chosen) <= 1
  /\ envDone \in BOOLEAN /\ container \in BOOLEAN
  /\ history \in Seq([kind : {"prompt", "summary", "assistant", "observation"},
                      turns : Seq(Turns), made : 0..MaxStepsAbsolute])
  /\ stepCount \in 0..MaxStepsAbsolute
  /\ submitted \in BOOLEAN
  /\ exitReason \in ExitReasons \cup {"none"}
  /\ memory.lastCompressed \in 0..stepCount
  /\ memory.lastAppended \in 0..stepCount
  /\ memory.singles \in Seq(Turns)

EmptyMemory == [lastCompressed |-> 0, lastAppended |-> 0, singles |-> <<>>]

(* runagent up to its try statement: the container is started.            *)
Init ==
  /\ args \in Args
  /\ pc = "setup" /\ iteration = 0 /\ idx = 0
  /\ trajectories = <<>> /\ chosen = <<>>
  /\ envDone = FALSE /\ container = TRUE
  /\ history = <<>> /\ stepCount = 0 /\ submitted = FALSE
  /\ exitReason = "none" /\ memory = EmptyMemory

-----------------------------------------------------------------------------
(* Agent.run up to its loop: a new memory, the two prompts; the container  *)
(* and RepoEnv.done stay as the previous run left them.                    *)
StartRun ==
  /\ pc = "setup" /\ pc' = "turn"
  /\ history' = <<Prompt, Prompt>>
  /\ stepCount' = 0 /\ submitted' = FALSE /\ exitReason' = "none"
  /\ memory' = EmptyMemory
  /\ UNCHANGED <<args, loopVars, chosen, envDone, container>>

(* history[-k:] in Python: all of it when k is 0.              *)
LastMessages(h, k) ==
  IF k = 0 \/ k >= Len(h) THEN h ELSE SubSeq(h, Len(h) - k + 1, Len(h))

CompressUntil == stepCount - args.keep

NeedsCompression_sinceSummarised ==
  /\ args.compress /\ stepCount > 0
  /\ stepCount >= args.trigger
  /\ stepCount >= args.window + args.keep
  /\ CompressUntil >= memory.lastCompressed + args.window

(* The early returns of compress_history.                                  *)
NeedsCompression ==
  /\ args.compress /\ stepCount > 0
  /\ stepCount >= args.trigger
  /\ stepCount >= args.window + args.keep
  /\ CompressUntil >= memory.lastAppended + args.window

(* Step 1: every turn not yet summarised gets a summary; one whose query   *)
(* fails gets a stand-in, so none is missing.                              *)
NewSingles_fromAppended ==
  [i \in 1..(CompressUntil - memory.lastAppended) |->
     memory.lastAppended + i - 1]

NewSingles ==
  [i \in 1..(CompressUntil - memory.lastCompressed) |->
     memory.lastCompressed + i - 1]

(* The windows already in the history.                                     *)
OldWindows_none == 0
OldWindows == memory.lastAppended \div args.window

(* Step 2: one message for each complete window that is not there yet.     *)
WindowMessages(singles) ==
  [w \in 1..((Len(singles) \div args.window) - OldWindows) |->
     LET first == (OldWindows + w - 1) * args.window
     IN  Message("summary",
                 SubSeq(singles, first + 1, first + args.window))]

(* Step 3: the turns that stay in full: the recent ones and those that do  *)
(* not fill a window.                                                      *)
KeptMessages_recentOnly(singles) == 2 * args.keep
KeptMessages_notRecent(singles) == 2 * (Len(singles) % args.window)
KeptMessages(singles) == 2 * (args.keep + (Len(singles) % args.window))

CompressedHistory(singles) ==
  LET kept == KeptMessages(singles)
  IN  SubSeq(history, 1, 2 + OldWindows)
        \o WindowMessages(singles)
        \o IF Len(history) > kept + 2
           THEN LastMessages(history, kept)
           ELSE SubSeq(history, 3, Len(history))

(* Memory.compress_history at the top of the loop.                         *)
CompressHistory ==
  /\ pc = "turn" /\ pc' = "query"
  /\ IF NeedsCompression
     THEN LET singles == memory.singles \o NewSingles
          IN  /\ history' = CompressedHistory(singles)
              /\ memory' = [lastCompressed |-> CompressUntil,
                            lastAppended |->
                              CompressUntil - (Len(singles) % args.window),
                            singles |-> singles]
     ELSE UNCHANGED <<history, memory>>
  /\ UNCHANGED <<args, loopVars, chosen, envDone, container, stepCount,
                 submitted, exitReason>>

-----------------------------------------------------------------------------
(* Every attempt to query the model failed: the run ends without a step.   *)
QueryFails_continues ==
  /\ pc = "query" /\ pc' = "turn"
  /\ UNCHANGED <<args, loopVars, chosen, envDone, container, runVars>>

QueryFails ==
  /\ pc = "query" /\ pc' = "ended"
  /\ exitReason' = "llm_query_error"
  /\ UNCHANGED <<args, loopVars, chosen, envDone, container, history,
                 stepCount, submitted, memory>>

LastStep_oneLate == stepCount >= MaxStepsAbsolute
LastStep == stepCount + 1 >= MaxStepsAbsolute

(* What ends a run after a step: RepoEnv's done, the tokens of the answer, *)
(* the number of steps, the time; max_steps only names the reason.         *)
ExitReason(done, overTokens, overTime) ==
  LET remaining == MaxSteps - stepCount
  IN  CASE done /\ remaining > 0 -> "agent"
        [] done /\ remaining = 0 -> "max_step_limit"
        [] done /\ remaining < 0 -> "agent_max_step_limit"
        [] ~done /\ overTokens -> "token_limit"
        [] ~done /\ ~overTokens /\ LastStep -> "abs_step_limit"
        [] ~done /\ ~overTokens /\ ~LastStep /\ overTime -> "traj_time_limit"
        [] OTHER -> "none"

(* RepoEnv.step: done is set by a finish or submit and is never reset.     *)
StepDone(submits, raises) == envDone \/ (submits /\ ~raises)

(* The model answers, RepoEnv.step executes the action and the turn is     *)
(* recorded.  A step that raises leaves done and info as the turn before   *)
(* had them; in the first turn there is no info and the run raises.        *)
Turn(submits, raises, overTokens, overTime) ==
  LET done == StepDone(submits, raises)
      exit == ExitReason(done /\ ~raises, overTokens, overTime)
  IN  /\ pc = "query"
      /\ raises => stepCount > 0
      /\ envDone' = done
      /\ submitted' = submits
      /\ stepCount' = stepCount + 1
      /\ history' = history \o <<Message("assistant", <<stepCount>>),
                                 Message("observation", <<stepCount>>)>>
      /\ exitReason' = exit
      /\ pc' = IF exit = "none" THEN "turn" ELSE "ended"
      /\ UNCHANGED <<args, loopVars, chosen, container, memory>>

(* An exception of Agent.run reaches runagent, which returns None and      *)
(* leaves the container: the commands cannot be copied, the answer cannot  *)
(* be parsed, the first step raises, the diff cannot be read.              *)
RunRaises ==
  /\ pc \in {"setup", "query", "ended"} /\ pc' = "raised"
  /\ UNCHANGED <<args, loopVars, chosen, envDone, container, runVars>>

-----------------------------------------------------------------------------
(* min(trajectories, key=num_steps): the first of the shortest.            *)
Shortest(ts) ==
  ts[Min({i \in DOMAIN ts : \A j \in DOMAIN ts : ts[i].steps <= ts[j].steps})]

(* run_agent_with_restarts, once agent.run has returned: only the last     *)
(* restart's trajectory counts, an iteration the agent ended itself is     *)
(* returned, the others are compared at the end.                           *)
RunReturns ==
  LET t  == [exit |-> exitReason, steps |-> stepCount,
             submitted |-> submitted]
      ts == Append(trajectories, t)
  IN  /\ pc = "ended"
      /\ \/ /\ idx < args.restarts - 1
            /\ idx' = idx + 1 /\ pc' = "setup"
            /\ UNCHANGED <<iteration, trajectories, chosen>>
         \/ /\ idx = args.restarts - 1 /\ exitReason = "agent"
            /\ chosen' = <<t>> /\ pc' = "reward"
            /\ UNCHANGED <<iteration, idx, trajectories>>
         \/ /\ idx = args.restarts - 1 /\ exitReason # "agent"
            /\ trajectories' = ts
            /\ IF iteration < args.iterations - 1
               THEN /\ iteration' = iteration + 1 /\ idx' = 0 /\ pc' = "setup"
                    /\ UNCHANGED chosen
               ELSE /\ chosen' = <<Shortest(ts)>> /\ pc' = "reward"
                    /\ UNCHANGED <<iteration, idx>>
      /\ UNCHANGED <<args, envDone, container, runVars>>

(* runagent: the reward, then env.close(), which an exception skips.       *)
RewardComputed ==
  /\ pc = "reward" /\ pc' = "returned" /\ container' = FALSE
  /\ UNCHANGED <<args, loopVars, chosen, envDone, runVars>>

RewardRaises ==
  /\ pc = "reward" /\ pc' = "raised"
  /\ UNCHANGED <<args, loopVars, chosen, envDone, container, runVars>>

Next ==
  \/ StartRun \/ CompressHistory \/ QueryFails \/ RunReturns
  \/ RunRaises \/ RewardComputed \/ RewardRaises
  \/ \E submits, raises, overTokens, overTime \in BOOLEAN :
       Turn(submits, raises, overTokens, overTime)

(* Every call the program blocks in has a timeout.                         *)
Spec == Init /\ [][Next]_vars /\ WF_vars(Next)

-----------------------------------------------------------------------------
(* Properties *)

InRun == pc \in {"turn", "query", "ended"}

(* Where the history tells of a turn, in the order of the messages.        *)
Told ==
  UNION {{i} \X DOMAIN history[i].turns :
           i \in {j \in DOMAIN history : history[j].kind \in {"summary", "assistant"}}}
TurnAt(p) == history[p[1]].turns[p[2]]
Before(p, q) == p[1] < q[1] \/ (p[1] = q[1] /\ p[2] < q[2])

(* Compression loses no turn and repeats none: at every query the history  *)
(* tells of every turn exactly once and in order, summarised or in full,   *)
(* whatever the window, the trigger and the number of turns that do not    *)
(* fill a window (memory.py:444-565).                                      *)
EveryTurnShownOnce ==
  InRun => /\ {TurnAt(p) : p \in Told} = 0..(stepCount - 1)
           /\ \A p, q \in Told : Before(p, q) => TurnAt(p) < TurnAt(q)

InFull(i, t) ==
  /\ history[i].kind = "assistant" /\ history[i].turns = <<t>>
  /\ history[i + 1].kind = "observation" /\ history[i + 1].turns = <<t>>

(* The last keep_recent turns are the last messages and in full detail     *)
(* (memory.py:107), each observation behind its action.                    *)
RecentInFull ==
  InRun =>
    \A k \in 1..Min({args.keep, stepCount}) :
      InFull(Len(history) - 2 * k + 1, stepCount - k)

IsSummary(i) == history[i].kind = "summary"

(* The point of compression: from the first summary on, the model is never *)
(* asked with keep_recent turns and a whole window in full, nor before it  *)
(* with more turns than the trigger allows: no compression that is due is  *)
(* skipped because the one before left an incomplete window.               *)
ContextBounded ==
  LET inFull == {i \in DOMAIN history : history[i].kind = "assistant"}
  IN  (pc = "query" /\ args.compress) =>
        Cardinality(inFull) <
          IF \E i \in DOMAIN history : IsSummary(i)
          THEN args.window + args.keep
          ELSE Max({args.trigger, args.window + args.keep})

(* Both together: the window of full turns, bounded on both sides.         *)
WindowHolds == RecentInFull /\ ContextBounded

(* A summary, once shown to the model, is never rewritten, reordered or    *)
(* dropped while the run lasts, nor is what stands before it: the prompt   *)
(* keeps its prefix.                                                       *)
SummariesFrozen ==
  [][InRun => \A i \in DOMAIN history : IsSummary(i) =>
       \A j \in 1..i : j \in DOMAIN history' /\ history'[j] = history[j]]_vars

(* runagent ends, with a trajectory or with None.                          *)
RunEnds == <>(pc \in {"returned", "raised"})

(* "Agent has finished naturally." (agent.py:665): a trajectory that ends  *)
(* with reason "agent" ends with a finish or submit of the agent's own.    *)
AgentMeansFinished ==
  \A t \in ToSet(trajectories \o chosen) : t.exit = "agent" => t.submitted
=============================================================================
